---- MODULE Spec2Model ----
(***************************************************************************)
(* Request-lifecycle and conversation-state subsystem of the AI Dev        *)
(* Companion backend: RateLimiter, JobManager, ConversationManager and the *)
(* /chat and /chat/result handlers, modelled as state machines.            *)
(*                                                                         *)
(* Python values are encoded as follows.                                   *)
(*   Optional[T]      a set with at most one element: None is {} and a     *)
(*                    value v is {v}                                       *)
(*   dict             a function whose DOMAIN is the set of keys present   *)
(*   list             a sequence                                           *)
(*   time.time()      the variable now, in ticks of 1/TicksPerSecond s     *)
(*   await            a handler is one action up to each await and one   *)
(*                    action after it                                      *)
(***************************************************************************)
EXTENDS Integers, Sequences, FiniteSets, TLC

(***************************************************************************)
(* Bounds of the model.                                                    *)
(***************************************************************************)
TicksPerSecond == 2
MaxWindows == 1
Slack == 1
MaxLimit == 2
MaxJobs == 2
MaxConvs == 2
MaxMsgs == 2
MsgsPerThread == 2
MaxChats == 2

Threads == {"t1", "t2"}
Ips == {"1.2.3.4", "5.6.7.8"}
NoIp == "-"
Handlers == {"h1"}

VARIABLES
    now,        \* the wall clock read by time.time(), in ticks
    limit,      \* RateLimiter._limit
    buckets,    \* RateLimiter._buckets: ip -> [count, reset]
    rl_pc,      \* per caller of RateLimiter.check: "idle" or "read" (now read, lock not yet taken)
    rl_ip,      \* per caller: the argument ip
    rl_now,     \* per caller: the local variable now
    rl_last,    \* history: the check that returned last, [ip, t, pre, ret]: its ip, its
                \* local now, the ip's bucket before it (Optional) and the value it returned;
                \* None before the first check and after reset()
    calls,      \* history: per ip, the checks made in the bucket's current window (capped)
    jobs,       \* JobManager._jobs: job id -> record (a dict)
    nextJob,    \* the job ids handed out so far (uuid4: fresh, never reused)
    task,       \* per job id, the position of its run_job call:
                \* "none", "spawned", "awaiting" (inside await coro_factory()), "finished"
    cl,         \* the caller of cleanup between reading the clock and taking the lock:
                \* Optional [t, ttl]
    jm_last,    \* history: what the last operation returned, if it was cleanup or
                \* chat_result; None otherwise
    conversations,  \* ConversationManager._conversations: id -> Conversation
    nextConv,   \* the conversation ids handed out so far (uuid4: fresh, never reused)
    cm_lock,    \* ConversationManager._lock: Optional holder
    cm_pc,      \* per concurrent caller of add_message: "idle" or "locked"
    cm_left,    \* per concurrent caller: the add_message calls it has still to make
    sent,       \* history: per stored conversation id, the <<role, content, metadata>>
                \* passed to the add_message calls that found it, in call order
    handlers,   \* per chat handler that can wait at an await: [pc |-> "idle"], or its
                \* position ("analyze", "chat") and its locals
    chats,      \* the chat requests that have stored a message so far
    chat_last,  \* history: the request and the response of the chat request that
                \* has just been answered: Optional [handler, body, created, resp]
    rl_lock,    \* RateLimiter._lock: Optional holder
    jm_lock,    \* JobManager._lock: Optional holder
    op          \* per thread that calls the stores: [pc, store], pc "idle", "wait" (at
                \* the with statement of a method of the store) or "locked" (inside it)

rlVars == <<limit, buckets, rl_pc, rl_ip, rl_now, rl_last, calls>>
jmVars == <<jobs, nextJob, task, cl, jm_last>>
cmVars == <<conversations, nextConv, cm_lock, cm_pc, cm_left, sent>>
chatVars == <<handlers, chats, chat_last>>
lockVars == <<rl_lock, jm_lock, op>>
vars == <<now, rlVars, jmVars, cmVars, chatVars, lockVars>>
notRl == <<jmVars, cmVars, chatVars, lockVars>>
notJm == <<rlVars, cmVars, chatVars, lockVars>>
notCm == <<rlVars, jmVars, handlers, chats, lockVars>>

None == {}
Some(v) == {v}
TheValue(opt) == CHOOSE v \in opt : TRUE

Max(a, b) == IF a >= b THEN a ELSE b
Min(a, b) == IF a <= b THEN a ELSE b

\* the sum of f over S
RECURSIVE SumOver(_, _)
SumOver(f, S) ==
    IF S = {} THEN 0
    ELSE LET x == CHOOSE y \in S : TRUE IN f[x] + SumOver(f, S \ {x})

(***************************************************************************)
(* Time.  The clock is sampled at the instants around the multiples of the *)
(* rate limiter's window: each multiple, and up to Slack ticks before and  *)
(* after it.                                                               *)
(***************************************************************************)
window == 60
WindowTicks == window * TicksPerSecond

Instants ==
    { k * WindowTicks + e : k \in 0..MaxWindows, e \in (0 - Slack)..Slack } \cap Nat

\* int(x) of a duration of d ticks: the whole seconds, truncated toward zero
IntSeconds(d) == IF d >= 0 THEN d \div TicksPerSecond ELSE 0 - ((0 - d) \div TicksPerSecond)

AdvanceTo(S) ==
    /\ \E t \in S : t > now /\ now' = t
    /\ UNCHANGED <<rlVars, jobs, nextJob, task, cl>>
    /\ UNCHANGED <<conversations, nextConv, cm_lock, cm_pc, cm_left, sent>>
    /\ UNCHANGED <<handlers, chats, lockVars>>
    /\ jm_last' = None
    /\ chat_last' = None

Advance == AdvanceTo(Instants)

(***************************************************************************)
(* RateLimiter (app/services/rate_limiter.py)                              *)
(***************************************************************************)
DictSet(d, k, v) == [x \in DOMAIN d \cup {k} |-> IF x = k THEN v ELSE d[x]]
EmptyDict == <<>>
\* d.get(k): Optional
DictGet(d, k) == IF k \in DOMAIN d THEN Some(d[k]) ELSE None

\* the branch of check that opens a window: no bucket, or the window has passed
WindowPassed_Inclusive(t, bucket) == t >= bucket.reset
WindowPassed(t, bucket) == t > bucket.reset

\* the branch of check that rejects
AtLimit_Never(bucket, lim) == FALSE
AtLimit_OffByOne(bucket, lim) == bucket.count > lim
AtLimit(bucket, lim) == bucket.count >= lim

RetryAfter(t, bucket) == Max(1, IntSeconds(bucket.reset - t))

\* the body of check under the lock: <<buckets after, returned value>>
CheckLocked_LostIncrement(b, lim, ip, t) ==
    IF ip \notin DOMAIN b \/ WindowPassed(t, b[ip])
    THEN <<DictSet(b, ip, [count |-> 1, reset |-> t + WindowTicks]), None>>
    ELSE IF AtLimit(b[ip], lim)
    THEN <<b, Some(RetryAfter(t, b[ip]))>>
    ELSE <<b, None>>
CheckLocked_CountsRejected(b, lim, ip, t) ==
    IF ip \notin DOMAIN b \/ WindowPassed(t, b[ip])
    THEN <<DictSet(b, ip, [count |-> 1, reset |-> t + WindowTicks]), None>>
    ELSE <<DictSet(b, ip, [count |-> b[ip].count + 1, reset |-> b[ip].reset]),
           IF AtLimit(b[ip], lim) THEN Some(RetryAfter(t, b[ip])) ELSE None>>
CheckLocked(b, lim, ip, t) ==
    IF ip \notin DOMAIN b
    THEN <<DictSet(b, ip, [count |-> 1, reset |-> t + WindowTicks]), None>>
    ELSE IF WindowPassed(t, b[ip])
    THEN <<DictSet(b, ip, [count |-> 1, reset |-> t + WindowTicks]), None>>
    ELSE IF AtLimit(b[ip], lim)
    THEN <<b, Some(RetryAfter(t, b[ip]))>>
    ELSE <<DictSet(b, ip, [count |-> b[ip].count + 1, reset |-> b[ip].reset]), None>>

\* whether the check opens a new window for ip
OpensWindow(b, ip, t) == ip \notin DOMAIN b \/ WindowPassed(t, b[ip])

\* check, line 23: now = time.time(), before the lock is taken
CheckRead(th, ip) ==
    /\ rl_pc[th] = "idle"
    /\ rl_pc' = [rl_pc EXCEPT ![th] = "read"]
    /\ rl_ip' = [rl_ip EXCEPT ![th] = ip]
    /\ rl_now' = [rl_now EXCEPT ![th] = now]
    /\ UNCHANGED <<now, limit, buckets, rl_last, calls, notRl>>

\* check, lines 25-36: the body, atomic under self._lock
CheckBody(th) ==
    /\ rl_pc[th] = "read"
    /\ LET r == CheckLocked(buckets, limit, rl_ip[th], rl_now[th])
       IN /\ buckets' = r[1]
          /\ rl_last' = Some([ip |-> rl_ip[th], t |-> rl_now[th],
                              pre |-> DictGet(buckets, rl_ip[th]), ret |-> r[2]])
    /\ calls' = [calls EXCEPT ![rl_ip[th]] =
                    IF OpensWindow(buckets, rl_ip[th], rl_now[th])
                    THEN 1 ELSE Min(@ + 1, limit + 2)]
    /\ rl_pc' = [rl_pc EXCEPT ![th] = "idle"]
    /\ rl_ip' = [rl_ip EXCEPT ![th] = NoIp]
    /\ rl_now' = [rl_now EXCEPT ![th] = 0]
    /\ UNCHANGED <<now, limit, notRl>>

\* reset, lines 38-40
RlReset ==
    /\ buckets' = EmptyDict
    /\ calls' = [i \in Ips |-> 0]
    /\ rl_last' = None
    /\ UNCHANGED <<now, limit, rl_pc, rl_ip, rl_now, notRl>>

InitRL ==
    /\ buckets = EmptyDict
    /\ rl_pc = [t \in Threads |-> "idle"]
    /\ rl_ip = [t \in Threads |-> NoIp]
    /\ rl_now = [t \in Threads |-> 0]
    /\ rl_last = None
    /\ calls = [i \in Ips |-> 0]

\* the callers T check the identifiers I
NextRLOf(T, I) ==
    \/ Advance
    \/ \E th \in T, ip \in I : CheckRead(th, ip)
    \/ \E th \in T : CheckBody(th)
    \/ RlReset

\* concurrent callers of every identifier, the clock sampled at the start of
\* the first window, at its end and one tick later
NextRLAll ==
    \/ AdvanceTo({0, WindowTicks, WindowTicks + 1})
    \/ \E th \in Threads, ip \in Ips : CheckRead(th, ip)
    \/ \E th \in Threads : CheckBody(th)
    \/ RlReset

(***************************************************************************)
(* JobManager (app/services/job_manager.py) and GET /chat/result           *)
(* (app/api/jobs.py)                                                       *)
(***************************************************************************)
JobIds == 1..MaxJobs

\* dict.update(kv): the keys of kv overwrite
DictUpdate(d, kv) == kv @@ d
\* d.get(k, default)
DictGetOr(d, k, default) == IF k \in DOMAIN d THEN d[k] ELSE default
\* d.pop(k, None)
DictPop(d, k) == [x \in DOMAIN d \ {k} |-> d[x]]

\* Python values a coroutine can return: None, a dict, a pydantic model
PyNone == [t |-> "none"]
PyDict(d) == [t |-> "dict", d |-> d]
PyModel(d) == [t |-> "model", d |-> d]

ChatResponseOk == [summary |-> "OK (test mode)", issues |-> <<>>]

WorkValues ==
    { PyNone,
      PyDict(EmptyDict),
      PyDict([error |-> "bad", summary |-> "failed"]),
      PyModel(ChatResponseOk) }

\* str(e) of the exception a coroutine can raise
ErrMsgs == {"", "boom"}

\* the clock of the job manager's callers is sampled at 0, at min_ttl and one tick later
min_ttl == 60
TtlTicks(ttl) == ttl * TicksPerSecond
JmInstants == {0, TtlTicks(min_ttl), TtlTicks(min_ttl) + 1}
Ttls == {0, min_ttl}

AdvanceJM == AdvanceTo(JmInstants)

\* create_job, lines 17-21
CreateJob ==
    /\ nextJob < MaxJobs
    /\ nextJob' = nextJob + 1
    /\ jobs' = DictSet(jobs, nextJob + 1, [status |-> "queued", created_at |-> now])
    /\ task' = [task EXCEPT ![nextJob + 1] = "spawned"]
    /\ jm_last' = None
    /\ UNCHANGED <<now, cl, notJm>>

\* set_status, lines 23-26
set_status_Unguarded(js, job_id, status, extra) ==
    DictSet(js, job_id, DictUpdate(DictGetOr(js, job_id, EmptyDict), [status |-> status] @@ extra))
set_status(js, job_id, status, extra) ==
    IF job_id \in DOMAIN js
    THEN DictSet(js, job_id, DictUpdate(js[job_id], [status |-> status] @@ extra))
    ELSE js

\* get, lines 28-30: Optional record
get(js, job_id) == DictGet(js, job_id)

\* active_count, lines 42-44: sum(1 for j in jobs.values() if status in {queued, running})
ActiveStatuses_RunningOnly == {"running"}
ActiveStatuses == {"queued", "running"}

RECURSIVE SumActive(_, _)
SumActive(js, ids) ==
    IF ids = {} THEN 0
    ELSE LET j == CHOOSE x \in ids : TRUE
         IN (IF DictGetOr(js[j], "status", "") \in ActiveStatuses THEN 1 ELSE 0)
            + SumActive(js, ids \ {j})

active_count(js) == SumActive(js, DOMAIN js)

\* cleanup, line 36: the jobs the comprehension collects as stale
IsStale_AtOrOver(rec, t, ttl) == t - DictGetOr(rec, "created_at", t) >= TtlTicks(ttl)
IsStale(rec, t, ttl) == t - DictGetOr(rec, "created_at", t) > TtlTicks(ttl)

\* cleanup, lines 37-39: pop every stale job, counting; <<jobs after, removed>>
RECURSIVE PopAll(_, _, _)
PopAll(js, stale, removed) ==
    IF stale = {} THEN <<js, removed>>
    ELSE LET jid == CHOOSE x \in stale : TRUE
         IN PopAll(DictPop(js, jid), stale \ {jid}, removed + 1)

cleanup(js, t, ttl) ==
    PopAll(js, { jid \in DOMAIN js : IsStale(js[jid], t, ttl) }, 0)

\* cleanup, lines 33-34: now = time.time(); removed = 0
CleanupRead(ttl) ==
    /\ cl = None
    /\ cl' = Some([t |-> now, ttl |-> ttl])
    /\ jm_last' = None
    /\ UNCHANGED <<now, jobs, nextJob, task, notJm>>

\* cleanup, lines 35-40: under the lock
CleanupBody ==
    /\ cl # None
    /\ LET c == TheValue(cl)
           r == cleanup(jobs, c.t, c.ttl)
       IN /\ jobs' = r[1]
          /\ jm_last' = Some([op |-> "cleanup", t |-> c.t, ttl |-> c.ttl,
                              pre |-> jobs, removed |-> r[2]])
    /\ cl' = None
    /\ UNCHANGED <<now, nextJob, task, notJm>>

\* run_job, line 47: set_status(job_id, "running"), then the await
RunJobStart(j) ==
    /\ task[j] = "spawned"
    /\ jobs' = set_status(jobs, j, "running", EmptyDict)
    /\ task' = [task EXCEPT ![j] = "awaiting"]
    /\ jm_last' = None
    /\ UNCHANGED <<now, nextJob, cl, notJm>>

\* run_job, lines 49-60: what is stored when the coroutine returned result
Truthy(str) == str # ""

AfterReturn_AlwaysDone(js, j, result, t) ==
    set_status(js, j, "done",
        [result |-> IF result = PyNone THEN EmptyDict ELSE result.d, completed_at |-> t])
AfterReturn(js, j, result, t) ==
    IF result = PyNone
    THEN set_status(js, j, "error",
             [error |-> "No result returned from code review.", completed_at |-> t])
    ELSE IF result.t = "dict" /\ Truthy(DictGetOr(result.d, "error", ""))
    THEN set_status(js, j, "error",
             [error |-> DictGetOr(result.d, "summary", "Bedrock error"), completed_at |-> t])
    ELSE set_status(js, j, "done", [result |-> result.d, completed_at |-> t])

\* run_job, lines 61-62: what is stored when the coroutine raised e, msg = str(e)
AfterRaise_NoCompletedAt(js, j, msg, t) == set_status(js, j, "error", [error |-> msg])
AfterRaise(js, j, msg, t) ==
    set_status(js, j, "error", [error |-> msg, completed_at |-> t])

RunJobReturn(j, result) ==
    /\ task[j] = "awaiting"
    /\ jobs' = AfterReturn(jobs, j, result, now)
    /\ task' = [task EXCEPT ![j] = "finished"]
    /\ jm_last' = None
    /\ UNCHANGED <<now, nextJob, cl, notJm>>

RunJobRaise(j, msg) ==
    /\ task[j] = "awaiting"
    /\ jobs' = AfterRaise(jobs, j, msg, now)
    /\ task' = [task EXCEPT ![j] = "finished"]
    /\ jm_last' = None
    /\ UNCHANGED <<now, nextJob, cl, notJm>>

\* chat_result, app/api/jobs.py lines 81-91: the response
Falsy(dict) == DOMAIN dict = {}
OrDefault_Never(str, default) == str
OrDefault(str, default) == IF Truthy(str) THEN str ELSE default

JobNotFound(job_id) == [code |-> 404, type |-> "job_not_found", job_id |-> job_id]

chat_result(js, job_id) ==
    LET job == get(js, job_id) IN
    IF job = None THEN JobNotFound(job_id)
    ELSE LET rec == TheValue(job)
             status == DictGetOr(rec, "status", "") IN
         IF status = "done"
         THEN [code |-> 200,
               content |-> IF Falsy(DictGetOr(rec, "result", EmptyDict))
                           THEN EmptyDict ELSE rec["result"]]
         ELSE IF status = "error"
         THEN [code |-> 500, detail |-> OrDefault(DictGetOr(rec, "error", ""), "unknown error")]
         ELSE [code |-> 202, content |-> [job_id |-> job_id, status |-> status]]

\* chat_status, app/api/jobs.py lines 70-80: the response
chat_status(js, job_id) ==
    LET job == get(js, job_id) IN
    IF job = None \/ Falsy(TheValue(job)) THEN JobNotFound(job_id)
    ELSE [code |-> 200,
          content |-> [job_id |-> job_id,
                       status |-> DictGet(TheValue(job), "status"),
                       created_at |-> DictGet(TheValue(job), "created_at")]]

ChatResult(job_id) ==
    /\ jm_last' = Some([op |-> "chat_result", job_id |-> job_id,
                        job |-> get(jobs, job_id), resp |-> chat_result(jobs, job_id)])
    /\ UNCHANGED <<now, jobs, nextJob, task, cl, notJm>>

InitJM ==
    /\ jobs = EmptyDict
    /\ nextJob = 0
    /\ task = [j \in JobIds |-> "none"]
    /\ cl = None
    /\ jm_last = None

NextJM ==
    \/ AdvanceJM
    \/ CreateJob
    \/ \E ttl \in Ttls : CleanupRead(ttl)
    \/ CleanupBody
    \/ \E j \in JobIds : RunJobStart(j)
    \/ \E j \in JobIds, v \in WorkValues : RunJobReturn(j, v)
    \/ \E j \in JobIds, m \in ErrMsgs : RunJobRaise(j, m)
    \/ \E j \in JobIds \cup {MaxJobs + 1} : ChatResult(j)

\* what the work of a job can return: also a dict whose error is empty and
\* one with an error and no summary
RunValues ==
    WorkValues \cup { PyDict([error |-> "", summary |-> "clean"]), PyDict([error |-> "bad"]) }

\* the life of the jobs: created, run, polled and cleaned up with ttl 0, the
\* clock sampled at two instants
NextRun ==
    \/ AdvanceTo({0, 1})
    \/ CreateJob
    \/ CleanupRead(0)
    \/ CleanupBody
    \/ \E j \in JobIds : RunJobStart(j)
    \/ \E j \in JobIds, v \in RunValues : RunJobReturn(j, v)
    \/ \E j \in JobIds, m \in ErrMsgs : RunJobRaise(j, m)
    \/ \E j \in JobIds : ChatResult(j)

(***************************************************************************)
(* Domain models (app/domain/models.py)                                    *)
(***************************************************************************)
Fields == {"original_code", "current_code", "detected_issues", "pending_issues",
           "applied_fixes", "awaiting_decision"}

\* ConversationState: the field defaults, lines 260-283
FieldDefault(f) == IF f = "awaiting_decision" THEN Some(FALSE) ELSE None

\* ConversationState(**kw): the fields given, the others at their defaults
ConversationState(kw) == [f \in Fields |-> IF f \in DOMAIN kw THEN kw[f] ELSE FieldDefault(f)]

\* Message(role, content, metadata), timestamp from the default factory
Message(role, content, metadata, t) ==
    [role |-> role, content |-> content, timestamp |-> t, metadata |-> metadata]

\* Conversation(), lines 298-322
Conversation(t) ==
    [created_at |-> t, updated_at |-> t, messages |-> <<>>,
     state |-> ConversationState(EmptyDict)]

SecurityIssue ==
    [type |-> Some("SECURITY"), description |-> Some("Hardcoded credentials detected"),
     suggestion |-> Some("Use environment variables")]
PerformanceIssue ==
    [type |-> Some("PERFORMANCE"), description |-> Some("Inefficient loop"),
     suggestion |-> Some("Use bulk operations")]

(***************************************************************************)
(* ConversationManager (app/services/conversation_manager.py)              *)
(***************************************************************************)
ConvIds == 1..MaxConvs
\* the clock of the conversation manager's callers is sampled at two instants
CmInstants == {0, 1}

AdvanceCM == AdvanceTo(CmInstants)

\* create_conversation, lines 26-36
create_conversation(cs, conv_id, t) == DictSet(cs, conv_id, Conversation(t))

CreateConversation ==
    /\ nextConv < MaxConvs
    /\ nextConv' = nextConv + 1
    /\ conversations' = create_conversation(conversations, nextConv + 1, now)
    /\ UNCHANGED <<now, cm_lock, cm_pc, cm_left, sent, notCm>>
    /\ chat_last' = None

\* get_conversation, lines 38-49: Optional
get_conversation(cs, id) == DictGet(cs, id)

\* add_message, line 77: conversation.messages.append(message)
AppendMessage_Prepend(msgs, m) == <<m>> \o msgs
AppendMessage_Overwrite(msgs, m) == <<m>>
AppendMessage(msgs, m) == Append(msgs, m)

\* add_message, lines 68-70: conversation = self._conversations.get(id); if
\* not conversation: return
add_message_Recreates(cs, id, role, content, metadata, t) ==
    LET c == IF id \in DOMAIN cs THEN cs[id] ELSE Conversation(t)
    IN DictSet(cs, id,
           [c EXCEPT
               !.messages = AppendMessage(@, Message(role, content, metadata, t)),
               !.updated_at = t])

\* add_message, lines 68-78, under the lock
add_message(cs, id, role, content, metadata, t) ==
    IF id \notin DOMAIN cs THEN cs
    ELSE DictSet(cs, id,
             [cs[id] EXCEPT
                 !.messages = AppendMessage(@, Message(role, content, metadata, t)),
                 !.updated_at = t])

\* the history of the add_message calls
SentOf(cs, s, id, role, content, metadata) ==
    IF id \in DOMAIN cs
    THEN [s EXCEPT ![id] = Append(@, <<role, content, metadata>>)]
    ELSE s
Sent(id, role, content, metadata) == SentOf(conversations, sent, id, role, content, metadata)

\* the messages stored in all conversations
TotalMessages(cs) == SumOver([c \in DOMAIN cs |-> Len(cs[c].messages)], DOMAIN cs)

AddMessage(id, role, content, metadata) ==
    /\ id \in DOMAIN conversations => TotalMessages(conversations) < MaxMsgs
    /\ conversations' = add_message(conversations, id, role, content, metadata, now)
    /\ sent' = Sent(id, role, content, metadata)
    /\ UNCHANGED <<now, nextConv, cm_lock, cm_pc, cm_left, notCm>>
    /\ chat_last' = None

\* update_state, lines 97-109: only the non-None fields of state overwrite
MergeState_Replace(old, state) == state
MergeState(old, state) ==
    [f \in Fields |-> IF state[f] # None THEN state[f] ELSE old[f]]

\* update_state, lines 92-111, under the lock
update_state_NoOp(cs, id, state, t) == cs
update_state(cs, id, state, t) ==
    IF id \notin DOMAIN cs THEN cs
    ELSE DictSet(cs, id,
             [cs[id] EXCEPT !.state = MergeState(@, state), !.updated_at = t])

\* update_state(id, ConversationState(**kw))
UpdateState(id, kw) ==
    /\ conversations' = update_state(conversations, id, ConversationState(kw), now)
    /\ UNCHANGED <<now, nextConv, cm_lock, cm_pc, cm_left, sent, notCm>>
    /\ chat_last' = None

\* delete_conversation, lines 162-166: <<conversations after, returned value>>
delete_conversation(cs, id) ==
    IF id \in DOMAIN cs THEN <<DictPop(cs, id), TRUE>> ELSE <<cs, FALSE>>

DeleteConversation(id) ==
    /\ conversations' = delete_conversation(conversations, id)[1]
    /\ sent' = [sent EXCEPT ![id] = <<>>]
    /\ UNCHANGED <<now, nextConv, cm_lock, cm_pc, cm_left, notCm>>
    /\ chat_last' = None

\* clear_all, lines 186-189
ClearAll ==
    /\ conversations' = EmptyDict
    /\ sent' = [c \in ConvIds |-> <<>>]
    /\ UNCHANGED <<now, nextConv, cm_lock, cm_pc, cm_left, notCm>>
    /\ chat_last' = None

\* the arguments of the sampled add_message calls: <<role, content, metadata>>
MessageArgs ==
    { <<"user", "First", None>>,
      <<"assistant", "Second", Some([source_code |-> "fun main() {}"])>> }

\* the sampled ConversationState(**kw): the keyword arguments are the fields D
\* of one of two full records, for every set D of fields
KwSamples ==
    { [original_code |-> Some("fun main() {}"),
       current_code |-> Some("fun main() {}"),
       detected_issues |-> Some(<<SecurityIssue>>),
       pending_issues |-> Some(<<"PERFORMANCE", "SECURITY">>),
       applied_fixes |-> Some(<<"SECURITY">>),
       awaiting_decision |-> Some(TRUE)],
      [original_code |-> None,
       current_code |-> None,
       detected_issues |-> None,
       pending_issues |-> Some(<<"PERFORMANCE">>),
       applied_fixes |-> Some(<<>>),
       awaiting_decision |-> Some(FALSE)] }
Given(full, D) == [f \in D |-> full[f]]

\* the updates that other specifications interleave with messages
KwFew ==
    { [original_code |-> Some("fun main() {}"),
       pending_issues |-> Some(<<"PERFORMANCE", "SECURITY">>)],
      [applied_fixes |-> Some(<<"SECURITY">>), awaiting_decision |-> Some(TRUE)] }

InitCM ==
    /\ conversations = EmptyDict
    /\ nextConv = 0
    /\ cm_lock = None
    /\ cm_pc = [th \in Threads |-> "idle"]
    /\ cm_left = [th \in Threads |-> MsgsPerThread]
    /\ sent = [c \in ConvIds |-> <<>>]

\* every operation of the manager, one caller at a time
NextCM ==
    \/ AdvanceCM
    \/ CreateConversation
    \/ \E id \in ConvIds, a \in MessageArgs : AddMessage(id, a[1], a[2], a[3])
    \/ \E id \in ConvIds, kw \in KwFew : UpdateState(id, kw)
    \/ \E id \in ConvIds : DeleteConversation(id)
    \/ ClearAll

\* test_concurrent_message_addition: f"Message {i}"
MessageText(i) == "Message " \o ToString(i)

\* with self._lock: a caller enters when no caller holds the lock.  The callers
\* of test_concurrent_message_addition start once conv_id has been created.
AddAcquire(th, id) ==
    /\ id \in DOMAIN conversations
    /\ cm_pc[th] = "idle"
    /\ cm_left[th] > 0
    /\ cm_lock = None
    /\ cm_lock' = Some(th)
    /\ cm_pc' = [cm_pc EXCEPT ![th] = "locked"]
    /\ UNCHANGED <<now, conversations, nextConv, cm_left, sent, notCm>>
    /\ chat_last' = None

\* add_message, lines 68-78, by the holder of the lock, which it then releases
AddLocked(th, id) ==
    /\ cm_pc[th] = "locked"
    /\ LET content == MessageText(MsgsPerThread - cm_left[th])
       IN /\ conversations' = add_message(conversations, id, "user", content, None, now)
          /\ sent' = Sent(id, "user", content, None)
    /\ cm_lock' = None
    /\ cm_pc' = [cm_pc EXCEPT ![th] = "idle"]
    /\ cm_left' = [cm_left EXCEPT ![th] = @ - 1]
    /\ UNCHANGED <<now, nextConv, notCm>>
    /\ chat_last' = None

\* an operation of another caller, which takes the lock for its whole body
WithLock(A) == cm_lock = None /\ A

\* concurrent callers of add_message on the first conversation
NextCMConc ==
    \/ AdvanceCM
    \/ WithLock(CreateConversation)
    \/ \E th \in Threads : AddAcquire(th, 1)
    \/ \E th \in Threads : AddLocked(th, 1)
    \/ \E kw \in KwFew : WithLock(UpdateState(1, kw))

\* update_state of the first conversation, and of an unknown id, with every
\* partial record
NextCMState ==
    \/ AdvanceCM
    \/ CreateConversation
    \/ \E id \in {1, MaxConvs + 1}, full \in KwSamples, D \in SUBSET Fields :
           UpdateState(id, Given(full, D))
    \/ \E id \in ConvIds : DeleteConversation(id)
    \/ ClearAll

(***************************************************************************)
(* Chat orchestrator (app/api/chat.py).  Every endpoint is an async def on *)
(* one event loop: a handler runs without interruption up to an await, and *)
(* other requests are served while it waits for the analysis or the chat   *)
(* answer.                                                                 *)
(***************************************************************************)
CodeA == "fun main() { val x = 1 }"
CodeB == "val password = 12345"
UnknownConv == MaxConvs + 1

PyStr(s) == [t |-> "str", d |-> s]
PyList(l) == [t |-> "list", d |-> l]
Raise == [t |-> "raise"]

\* truthiness of an Optional[str]
TruthyStr(opt) == opt # None /\ opt # Some("")

\* the sampled message texts and, for each, which of the substrings the
\* handlers look for occur in its lower-case form
Keywords(m) ==
    CASE m = "Apply the improvements" -> {"apply", "improvement"}
      [] m = "Please fix the security issue" -> {"fix", "issue", "security"}
      [] m = "No thanks" -> {"no thanks"}
      [] m = "Explain the performance issue" -> {"issue", "performance"}
      [] OTHER -> {}
Messages ==
    {"Apply the improvements", "Please fix the security issue", "No thanks",
     "Explain the performance issue", ""}
\* word in msg_lower
Contains(m, word) == word \in Keywords(m)

\* ChatRequest, lines 14-47 of models.py
ChatRequest(source_code, code_snippet, conversation_id, message, apply_improvements) ==
    [source_code |-> source_code, code_snippet |-> code_snippet,
     conversation_id |-> conversation_id, message |-> message,
     apply_improvements |-> apply_improvements]

\* the sampled requests: code in either field or both; every message and flag
\* on the first conversation; an unknown conversation; code together with a
\* conversation; neither code nor conversation
ChatRequests ==
    { ChatRequest(c[1], c[2], None, None, None) :
          c \in {<<Some(CodeA), None>>, <<None, Some(CodeB)>>, <<Some(CodeA), Some(CodeB)>>} }
    \cup { ChatRequest(None, None, Some(1), m, f) :
               m \in {None} \cup {Some(x) : x \in Messages},
               f \in {None, Some(TRUE), Some(FALSE)} }
    \cup { ChatRequest(None, None, Some(UnknownConv), Some("No thanks"), None),
           ChatRequest(Some(CodeB), None, Some(1), None, None),
           ChatRequest(Some(CodeA), None, Some(1), Some("Apply the improvements"), None),
           ChatRequest(None, None, None, Some("No thanks"), None),
           ChatRequest(None, None, None, None, None) }

\* ChatRequest.get_code: self.source_code or self.code_snippet
get_code(body) == IF TruthyStr(body.source_code) THEN body.source_code ELSE body.code_snippet

\* ChatResponse(**kw), lines 98-128 of models.py
ResponseFields == {"summary", "issues", "conversation_id", "improved_code",
                   "awaiting_user_input", "suggested_actions"}
ResponseDefault(f) == IF f = "awaiting_user_input" THEN Some(FALSE) ELSE None
ChatResponse(kw) ==
    [kind |-> "ChatResponse",
     body |-> [f \in ResponseFields |-> IF f \in DOMAIN kw THEN kw[f] ELSE ResponseDefault(f)]]
\* the other ways a request ends
InvalidInput == [kind |-> "InvalidInput"]
NotFound == [kind |-> "HTTPException", status_code |-> 404]
InternalError == [kind |-> "JSONResponse", status_code |-> 500]
ValidationError == [kind |-> "ValidationError"]
Unhandled == [kind |-> "Exception"]

\* chat(), lines 31-43: which handler serves the request
Route_CodeFirst(body) ==
    IF TruthyStr(get_code(body)) THEN "new_analysis"
    ELSE IF body.conversation_id # None THEN "continuation"
    ELSE "invalid"
Route(body) ==
    IF TruthyStr(get_code(body)) /\ body.conversation_id = None THEN "new_analysis"
    ELSE IF body.conversation_id # None THEN "continuation"
    ELSE "invalid"

\* the store the handlers work on: <<conversations, sent>>
Store == <<conversations, sent>>
AddMsg(st, id, role, content, metadata, t) ==
    <<add_message(st[1], id, role, content, metadata, t),
      SentOf(st[1], st[2], id, role, content, metadata)>>
UpdState(st, id, state, t) == <<update_state(st[1], id, state, t), st[2]>>

\* _handle_new_analysis, lines 57-66: the store once the conversation is
\* created and the user's submission stored
NewAnalysisBegin(st, conv_id, code, t) ==
    AddMsg(<<create_conversation(st[1], conv_id, t), st[2]>>, conv_id, "user",
           "Please analyze this code", Some([source_code |-> code]), t)

\* what swarm.analyze(code) can give: it raises, or returns what json.loads
\* made of the model's answer
SecurityItem ==
    PyDict([type |-> Some("SECURITY"), description |-> Some("Hardcoded credentials detected"),
            suggestion |-> Some("Use environment variables")])
UntypedItem == PyDict([description |-> Some("Unused variable")])
EmptyTypeItem == PyDict([type |-> Some(""), description |-> Some("Long function")])
NullTypeItem == PyDict([type |-> None, suggestion |-> Some("Rename it")])
\* an answer with a security and a performance issue
BothIssues ==
    PyDict([summary |-> Some("Found issues"),
            issues |-> PyList(<<SecurityItem, PyDict(PerformanceIssue)>>)])
AnalyzeOutcomes ==
    { Raise,
      PyList(<<>>),
      PyDict([issues |-> PyNone]),
      PyDict([summary |-> Some("Looks good"), issues |-> PyList(<<>>)]),
      PyDict([summary |-> Some("Found issues"),
              issues |-> PyList(<<SecurityItem, PyStr("note"), UntypedItem>>)]),
      PyDict([summary |-> None,
              issues |-> PyList(<<EmptyTypeItem, NullTypeItem>>)]) }

\* lines 92-96: Issue(type=item.get("type", "general"), ...)
IssueOf(item) ==
    [type |-> DictGetOr(item.d, "type", Some("general")),
     description |-> DictGetOr(item.d, "description", Some("")),
     suggestion |-> DictGetOr(item.d, "suggestion", Some(""))]

\* lines 87-97: the dict items become issues, the others are skipped
RECURSIVE NormalizeIssues(_)
NormalizeIssues(items) ==
    IF items = <<>> THEN <<>>
    ELSE (IF Head(items).t = "dict" THEN <<IssueOf(Head(items))>> ELSE <<>>)
         \o NormalizeIssues(Tail(items))

\* lines 68-111, the try block: <<"ok", summary, issues>>, or <<"error">> when
\* anything in it raised
Analyze(fast, outcome) ==
    IF fast THEN <<"ok", Some("OK (fast mode)"), <<>>>>
    ELSE IF outcome.t # "dict" THEN <<"error">>
    ELSE <<"ok", DictGetOr(outcome.d, "summary", None),
           IF "issues" \in DOMAIN outcome.d /\ outcome.d.issues.t = "list"
           THEN NormalizeIssues(outcome.d.issues.d) ELSE <<>>>>

\* line 120: [issue.type for issue in issues if issue.type]
RECURSIVE TypesOf(_)
TypesOf(issues) ==
    IF issues = <<>> THEN <<>>
    ELSE (IF TruthyStr(Head(issues).type) THEN <<TheValue(Head(issues).type)>> ELSE <<>>)
         \o TypesOf(Tail(issues))

\* lines 122 and 135: len(issues) > 0
AwaitingInput_FromTypes(issues) == Len(TypesOf(issues)) > 0
AwaitingInput(issues) == Len(issues) > 0

\* lines 114-124
NewAnalysisState(code, issues) ==
    ConversationState([original_code |-> Some(code),
                       current_code |-> Some(code),
                       detected_issues |-> Some(issues),
                       pending_issues |-> Some(TypesOf(issues)),
                       applied_fixes |-> Some(<<>>),
                       awaiting_decision |-> Some(AwaitingInput(issues))])

\* lines 137-143
SuggestedActions ==
    <<"Apply all improvements", "Fix specific issue types",
      "Explain issues in detail", "Decline improvements">>

\* _handle_new_analysis, lines 113-151: <<store after, response>>
NewAnalysisEnd(st, conv_id, code, summary, issues, t) ==
    LET st1 == UpdState(st, conv_id, NewAnalysisState(code, issues), t)
        st2 == AddMsg(st1, conv_id, "assistant",
                      IF TruthyStr(summary) THEN TheValue(summary) ELSE "Analysis complete",
                      Some([issues |-> issues]), t)
    IN <<st2,
         ChatResponse([summary |-> summary,
                       issues |-> Some(issues),
                       conversation_id |-> Some(conv_id),
                       awaiting_user_input |-> Some(AwaitingInput(issues)),
                       suggested_actions |->
                           IF AwaitingInput(issues) THEN Some(SuggestedActions) ELSE None])>>

\* lines 68-151 after the conversation is set up
NewAnalysisFinish(st, conv_id, code, fast, outcome, t) ==
    LET a == Analyze(fast, outcome)
    IN IF a[1] = "error" THEN <<st, InternalError>>
       ELSE NewAnalysisEnd(st, conv_id, code, a[2], a[3], t)

\* _handle_conversation_continuation, lines 176-183
SaysApply(m) ==
    \/ Contains(m, "apply") /\ Contains(m, "improvement")
    \/ Contains(m, "fix") /\ Contains(m, "issue")
IntentApply(body) ==
    IF TruthyStr(body.message) /\ SaysApply(TheValue(body.message)) THEN TRUE
    ELSE body.apply_improvements = Some(TRUE)
IntentDecline(body) ==
    /\ TruthyStr(body.message)
    /\ ~SaysApply(TheValue(body.message))
    /\ Contains(TheValue(body.message), "decline") \/ Contains(TheValue(body.message), "no thanks")

\* _handle_apply_improvements, lines 217-225: Optional list
FixTypes(m) ==
    IF Contains(m, "security") /\ ~Contains(m, "performance") THEN Some(<<"SECURITY">>)
    ELSE IF Contains(m, "performance") /\ ~Contains(m, "security") THEN Some(<<"PERFORMANCE">>)
    ELSE IF \E w \in {"best practice", "style", "formatting"} : Contains(m, w)
         THEN Some(<<"BEST_PRACTICE", "STYLE">>)
    ELSE None

Range(s) == {s[k] : k \in 1..Len(s)}
TypeIn_Always(issue, types) == TRUE
TypeIn(issue, types) == \E ty \in Range(types) : issue.type = Some(ty)

\* ', '.join(l)
RECURSIVE Join(_)
Join(l) ==
    IF l = <<>> THEN ""
    ELSE IF Len(l) = 1 THEN l[1]
    ELSE l[1] \o ", " \o Join(Tail(l))

\* what the improver crew can give once it is asked: the code it was handed
\* with the issues it was handed fixed, or it raises
Improved == [t |-> "improved"]
ImproveOutcomes == {Improved, Raise}
Fixed(source_code, types) == source_code \o " // fixed: " \o Join(types)

\* CodeReviewProject.improve_code, crew.py lines 190-273
improve_code(source_code, issues, fix_types, outcome) ==
    LET issues_to_fix ==
            IF fix_types # None
            THEN SelectSeq(issues, LAMBDA i : TypeIn(i, TheValue(fix_types)))
            ELSE issues
    IN IF issues = <<>> \/ issues_to_fix = <<>> THEN PyStr(source_code)
       ELSE IF outcome = Raise THEN Raise
       ELSE PyStr(Fixed(source_code, TypesOf(issues_to_fix)))

\* _handle_apply_improvements, lines 214-288: <<store after, response>>
ApplyImprovements(st, conv_id, user_message, outcome, t) ==
    LET state == st[1][conv_id].state
        fix_types == FixTypes(user_message)
        original_code == IF TruthyStr(state.original_code)
                         THEN TheValue(state.original_code) ELSE ""
        issues == IF state.detected_issues # None
                  THEN TheValue(state.detected_issues) ELSE <<>>
        improved == improve_code(original_code, issues, fix_types, outcome)
        applied_fix_types == IF fix_types # None THEN TheValue(fix_types) ELSE TypesOf(issues)
        st1 == AddMsg(st, conv_id, "assistant",
                      "I've generated improved code based on the issues found.",
                      Some([improved_code |-> improved.d]), t)
        left == IF fix_types # None
                THEN SelectSeq(issues, LAMBDA i : ~TypeIn(i, applied_fix_types))
                ELSE <<>>
        remaining_issues == [k \in 1..Len(left) |-> TheValue(left[k].type)]
    IN IF improved = Raise THEN <<st, Unhandled>>
       ELSE IF \E k \in 1..Len(left) : left[k].type = None THEN <<st1, ValidationError>>
       ELSE <<UpdState(st1, conv_id,
                       ConversationState([current_code |-> Some(improved.d),
                                          applied_fixes |-> Some(applied_fix_types),
                                          pending_issues |-> Some(remaining_issues),
                                          awaiting_decision |-> Some(Len(remaining_issues) > 0)]),
                       t),
              ChatResponse([summary |->
                                Some("Code improvements applied successfully"
                                     \o (IF remaining_issues # <<>>
                                         THEN ". Remaining issues: " \o Join(remaining_issues)
                                         ELSE "")),
                            conversation_id |-> Some(conv_id),
                            improved_code |-> Some(improved.d),
                            awaiting_user_input |-> Some(Len(remaining_issues) > 0),
                            suggested_actions |->
                                IF remaining_issues # <<>>
                                THEN Some(<<"Fix remaining issues: " \o Join(remaining_issues),
                                            "Explain remaining issues">>)
                                ELSE None])>>

\* _handle_decline_improvements, lines 291-311: <<store after, response>>
DeclineImprovements(st, conv_id, t) ==
    LET st1 == AddMsg(st, conv_id, "assistant",
                      "Understood. Let me know if you need anything else.", None, t)
    IN <<UpdState(st1, conv_id, ConversationState([awaiting_decision |-> Some(FALSE)]), t),
         ChatResponse([summary |-> Some("No problem! Let me know if you change your mind."),
                       conversation_id |-> Some(conv_id),
                       awaiting_user_input |-> Some(FALSE)])>>

\* what bedrock.chat can give: an answer, or it raises
ChatOutcomes == {PyStr("The loop allocates on every pass."), Raise}
Apology == "I apologize, but I'm having trouble processing your question right now. Could you please rephrase it or ask something else?"

\* _handle_general_question, lines 332-355: <<store after, response>>
GeneralQuestionEnd(st, conv_id, outcome, t) ==
    LET response_summary == IF outcome = Raise THEN Apology ELSE outcome.d
    IN <<AddMsg(st, conv_id, "assistant", response_summary, None, t),
         ChatResponse([summary |-> Some(response_summary),
                       conversation_id |-> Some(conv_id),
                       awaiting_user_input |-> Some(FALSE)])>>

\* _handle_conversation_continuation, lines 160-204, up to the handler it
\* picks: "not_found", "invalid_message", "apply", "decline" or "question"
Continuation(cs, body) ==
    IF get_conversation(cs, TheValue(body.conversation_id)) = None THEN "not_found"
    ELSE IF body.message = None THEN "invalid_message"
    ELSE IF IntentApply(body) THEN "apply"
    ELSE IF IntentDecline(body) THEN "decline"
    ELSE "question"

Idle == [pc |-> "idle"]

Answered(handler, body, created, resp) ==
    Some([handler |-> handler, body |-> body, created |-> created, resp |-> resp])

\* a request that chat() rejects, line 43
ChatInvalid(body) ==
    /\ Route(body) = "invalid"
    /\ chat_last' = Answered("chat", body, {}, InvalidInput)
    /\ UNCHANGED <<now, lockVars, rlVars, jmVars, cmVars, handlers, chats>>

\* a new analysis with fast=true: nothing is awaited
ChatNewFast(body) ==
    /\ Route(body) = "new_analysis"
    /\ chats < MaxChats
    /\ nextConv < MaxConvs
    /\ LET conv_id == nextConv + 1
           code == TheValue(get_code(body))
           st1 == NewAnalysisBegin(Store, conv_id, code, now)
           end == NewAnalysisFinish(st1, conv_id, code, TRUE, Raise, now)
       IN /\ conversations' = end[1][1]
          /\ sent' = end[1][2]
          /\ chat_last' = Answered("new_analysis", body,
                                   DOMAIN st1[1] \ DOMAIN conversations, end[2])
    /\ nextConv' = nextConv + 1
    /\ chats' = chats + 1
    /\ UNCHANGED <<now, lockVars, rlVars, jmVars, cm_lock, cm_pc, cm_left, handlers>>

\* a new analysis up to await swarm.analyze(code), line 81
ChatNewStart(h, body) ==
    /\ Route(body) = "new_analysis"
    /\ handlers[h] = Idle
    /\ chats < MaxChats
    /\ nextConv < MaxConvs
    /\ LET conv_id == nextConv + 1
           st1 == NewAnalysisBegin(Store, conv_id, TheValue(get_code(body)), now)
       IN /\ conversations' = st1[1]
          /\ sent' = st1[2]
          /\ handlers' = [handlers EXCEPT ![h] =
                 [pc |-> "analyze", body |-> body, conv_id |-> conv_id,
                  created |-> DOMAIN st1[1] \ DOMAIN conversations]]
    /\ nextConv' = nextConv + 1
    /\ chats' = chats + 1
    /\ chat_last' = None
    /\ UNCHANGED <<now, lockVars, rlVars, jmVars, cm_lock, cm_pc, cm_left>>

\* the analysis returns or raises, and the handler runs to its end
ChatNewFinish(h, outcome) ==
    /\ handlers[h].pc = "analyze"
    /\ LET l == handlers[h]
           end == NewAnalysisFinish(Store, l.conv_id, TheValue(get_code(l.body)),
                                    FALSE, outcome, now)
       IN /\ conversations' = end[1][1]
          /\ sent' = end[1][2]
          /\ chat_last' = Answered("new_analysis", l.body, l.created, end[2])
    /\ handlers' = [handlers EXCEPT ![h] = Idle]
    /\ UNCHANGED <<now, lockVars, rlVars, jmVars, nextConv, cm_lock, cm_pc, cm_left, chats>>

\* a continuation that awaits nothing: unknown conversation, no message,
\* apply or decline
ChatContinue(body, outcome) ==
    /\ Route(body) = "continuation"
    /\ LET conv_id == TheValue(body.conversation_id)
           to == Continuation(conversations, body)
           st1 == AddMsg(Store, conv_id, "user", TheValue(body.message), None, now)
           end == CASE to = "not_found" -> <<Store, NotFound>>
                    [] to = "invalid_message" -> <<Store, ValidationError>>
                    [] to = "apply" -> ApplyImprovements(st1, conv_id, TheValue(body.message),
                                                         outcome, now)
                    [] to = "decline" -> DeclineImprovements(st1, conv_id, now)
       IN /\ to # "question"
          /\ to \in {"apply", "decline"} => chats < MaxChats
          /\ conversations' = end[1][1]
          /\ sent' = end[1][2]
          /\ chats' = IF to \in {"apply", "decline"} THEN chats + 1 ELSE chats
          /\ chat_last' = Answered("continuation", body, {}, end[2])
    /\ UNCHANGED <<now, lockVars, rlVars, jmVars, nextConv, cm_lock, cm_pc, cm_left, handlers>>

\* a general question up to await bedrock.chat(...), line 336
ChatAskStart(h, body) ==
    /\ Route(body) = "continuation"
    /\ Continuation(conversations, body) = "question"
    /\ handlers[h] = Idle
    /\ chats < MaxChats
    /\ LET conv_id == TheValue(body.conversation_id)
           st1 == AddMsg(Store, conv_id, "user", TheValue(body.message), None, now)
       IN /\ conversations' = st1[1]
          /\ sent' = st1[2]
          /\ handlers' = [handlers EXCEPT ![h] =
                 [pc |-> "chat", body |-> body, conv_id |-> conv_id, created |-> {}]]
    /\ chats' = chats + 1
    /\ chat_last' = None
    /\ UNCHANGED <<now, lockVars, rlVars, jmVars, nextConv, cm_lock, cm_pc, cm_left>>

\* the answer arrives or the call raises, and the handler runs to its end
ChatAskFinish(h, outcome) ==
    /\ handlers[h].pc = "chat"
    /\ LET l == handlers[h]
           end == GeneralQuestionEnd(Store, l.conv_id, outcome, now)
       IN /\ conversations' = end[1][1]
          /\ sent' = end[1][2]
          /\ chat_last' = Answered("continuation", l.body, {}, end[2])
    /\ handlers' = [handlers EXCEPT ![h] = Idle]
    /\ UNCHANGED <<now, lockVars, rlVars, jmVars, nextConv, cm_lock, cm_pc, cm_left, chats>>

InitChat ==
    /\ handlers = [h \in Handlers |-> Idle]
    /\ chats = 0
    /\ chat_last = None

\* no lock is held and no thread is in a method of a store
InitLocks ==
    /\ rl_lock = None
    /\ jm_lock = None
    /\ op = [th \in Threads |-> [pc |-> "idle", store |-> "-"]]

\* the chat endpoint and the conversation endpoints that delete, for the
\* requests R and the analysis outcomes A
NextChatOf(R, A) ==
    \/ \E body \in R : ChatInvalid(body)
    \/ \E body \in R : ChatNewFast(body)
    \/ \E h \in Handlers, body \in R : ChatNewStart(h, body)
    \/ \E h \in Handlers, outcome \in A : ChatNewFinish(h, outcome)
    \/ \E body \in R, outcome \in ImproveOutcomes : ChatContinue(body, outcome)
    \/ \E h \in Handlers, body \in R : ChatAskStart(h, body)
    \/ \E h \in Handlers, outcome \in ChatOutcomes : ChatAskFinish(h, outcome)
    \/ \E id \in ConvIds : DeleteConversation(id)
    \/ ClearAll

NextChat == NextChatOf(ChatRequests, AnalyzeOutcomes)

\* the requests that tell a stored conversation from one that is not: with
\* and without code, with and without a message, on the first conversation
\* and on an id that is never issued
LookupRequests ==
    { ChatRequest(Some(CodeA), None, None, None, None),
      ChatRequest(None, None, None, None, None),
      ChatRequest(None, None, Some(1), None, None),
      ChatRequest(None, None, Some(1), Some("No thanks"), None),
      ChatRequest(None, None, Some(1), Some("Explain the performance issue"), None),
      ChatRequest(Some(CodeA), None, Some(1), Some("Apply the improvements"), None),
      ChatRequest(None, None, Some(UnknownConv), Some("No thanks"), None),
      ChatRequest(Some(CodeA), None, Some(UnknownConv), None, None) }

\* an answer with a security issue and an issue whose type is the empty string
TypedAndEmpty ==
    PyDict([summary |-> Some("Found issues"),
            issues |-> PyList(<<SecurityItem, EmptyTypeItem>>)])

\* the requests that apply fixes: all of them, and those of one type
ApplyRequests ==
    LookupRequests
    \cup { ChatRequest(None, None, Some(1), Some("Please fix the security issue"), None),
           ChatRequest(None, None, Some(1), Some(""), Some(TRUE)) }

(***************************************************************************)
(* Two continuation requests in flight (app/api/chat.py, lines 154-355)    *)
(***************************************************************************)
\* the handlers of the two requests.  A step of a handler is one call to the
\* conversation manager or to a gateway, with the statements that follow it;
\* the event loop switches between requests at an await only, so the runs of
\* the program are among the runs of these steps.
Workers == {"w1", "w2"}

\* apply everything, apply the security fix, decline, ask
TwoRequests ==
    { ChatRequest(None, None, Some(1), Some(m), None) :
          m \in {"Apply the improvements", "Please fix the security issue",
                 "No thanks", "Explain the performance issue"} }

\* the locals of a handler: its request, the state it read, what the gateway
\* returned, the messages it has added, the fields it gave to update_state
\* and its response
Locals(body) ==
    [pc |-> "add_user", body |-> body, snap |-> None, gw |-> None,
     msgs |-> <<>>, kw |-> None, resp |-> None]

ConvOf(h) == TheValue(handlers[h].body.conversation_id)

\* a step of handler h that is not its last
Step(h, l) ==
    /\ handlers' = [handlers EXCEPT ![h] = l]
    /\ chat_last' = None
    /\ UNCHANGED <<now, lockVars, rlVars, jmVars, nextConv, cm_lock, cm_pc, cm_left, chats>>

\* the last step of handler h
Finish(h, l, resp) ==
    /\ handlers' = [handlers EXCEPT ![h] = [l EXCEPT !.pc = "finished", !.resp = Some(resp)]]
    /\ chat_last' = Answered("continuation", l.body, {}, resp)
    /\ UNCHANGED <<now, lockVars, rlVars, jmVars, nextConv, cm_lock, cm_pc, cm_left, chats>>

\* _handle_conversation_continuation, lines 160-165: the conversation is found
Arrive(h, body) ==
    /\ handlers[h] = Idle
    /\ Route(body) = "continuation"
    /\ get_conversation(conversations, TheValue(body.conversation_id)) # None
    /\ Step(h, Locals(body))
    /\ UNCHANGED <<conversations, sent>>

\* lines 167-204: the user message is stored and the intent is told
AddUser(h) ==
    /\ handlers[h].pc = "add_user"
    /\ LET l == handlers[h]
           user_message == TheValue(l.body.message)
           st1 == AddMsg(Store, ConvOf(h), "user", user_message, None, now)
       IN /\ conversations' = st1[1]
          /\ sent' = st1[2]
          /\ Step(h, [l EXCEPT !.pc = Continuation(conversations, l.body),
                               !.msgs = Append(@, <<"user", user_message>>)])

\* _handle_apply_improvements, lines 214-241: the conversation is read
ApplyRead(h) ==
    /\ handlers[h].pc = "apply"
    /\ Step(h, [handlers[h] EXCEPT !.pc = "improve",
                                   !.snap = Some(conversations[ConvOf(h)].state)])
    /\ UNCHANGED <<conversations, sent>>

\* lines 244-248: project.improve_code(...) returns the code or raises
ApplyImprove(h, outcome) ==
    /\ handlers[h].pc = "improve"
    /\ LET l == handlers[h]
           state == TheValue(l.snap)
           original_code == IF TruthyStr(state.original_code)
                            THEN TheValue(state.original_code) ELSE ""
           issues == IF state.detected_issues # None
                     THEN TheValue(state.detected_issues) ELSE <<>>
           improved == improve_code(original_code, issues,
                                    FixTypes(TheValue(l.body.message)), outcome)
       IN IF improved = Raise
          THEN Finish(h, l, Unhandled)
          ELSE Step(h, [l EXCEPT !.pc = "apply_add", !.gw = Some(improved)])
    /\ UNCHANGED <<conversations, sent>>

\* lines 254-259: the assistant message with the improved code is stored
ApplyAdd(h) ==
    /\ handlers[h].pc = "apply_add"
    /\ LET l == handlers[h]
           content == "I've generated improved code based on the issues found."
           st1 == AddMsg(Store, ConvOf(h), "assistant", content,
                         Some([improved_code |-> TheValue(l.gw).d]), now)
       IN /\ conversations' = st1[1]
          /\ sent' = st1[2]
          /\ Step(h, [l EXCEPT !.pc = "apply_update",
                               !.msgs = Append(@, <<"assistant", content>>)])

\* lines 251 and 262-288: the state is updated and the response returned
ApplyUpdate(h) ==
    /\ handlers[h].pc = "apply_update"
    /\ LET l == handlers[h]
           state == TheValue(l.snap)
           fix_types == FixTypes(TheValue(l.body.message))
           issues == IF state.detected_issues # None
                     THEN TheValue(state.detected_issues) ELSE <<>>
           applied_fix_types == IF fix_types # None THEN TheValue(fix_types)
                                ELSE TypesOf(issues)
           left == IF fix_types # None
                   THEN SelectSeq(issues, LAMBDA i : ~TypeIn(i, applied_fix_types))
                   ELSE <<>>
           remaining_issues == [k \in 1..Len(left) |-> TheValue(left[k].type)]
           kw == [current_code |-> Some(TheValue(l.gw).d),
                  applied_fixes |-> Some(applied_fix_types),
                  pending_issues |-> Some(remaining_issues),
                  awaiting_decision |-> Some(Len(remaining_issues) > 0)]
       IN IF \E k \in 1..Len(left) : left[k].type = None
          THEN /\ Finish(h, l, ValidationError)
               /\ UNCHANGED <<conversations, sent>>
          ELSE /\ conversations' = update_state(conversations, ConvOf(h),
                                                ConversationState(kw), now)
               /\ sent' = sent
               /\ Finish(h, [l EXCEPT !.kw = Some(kw)],
                         ChatResponse([summary |->
                                           Some("Code improvements applied successfully"
                                                \o (IF remaining_issues # <<>>
                                                    THEN ". Remaining issues: "
                                                         \o Join(remaining_issues)
                                                    ELSE "")),
                                       conversation_id |-> Some(ConvOf(h)),
                                       improved_code |-> Some(TheValue(l.gw).d),
                                       awaiting_user_input |-> Some(Len(remaining_issues) > 0),
                                       suggested_actions |->
                                           IF remaining_issues # <<>>
                                           THEN Some(<<"Fix remaining issues: "
                                                         \o Join(remaining_issues),
                                                       "Explain remaining issues">>)
                                           ELSE None]))

\* _handle_decline_improvements, lines 296-300: the acknowledgement is stored
DeclineAdd(h) ==
    /\ handlers[h].pc = "decline"
    /\ LET l == handlers[h]
           content == "Understood. Let me know if you need anything else."
           st1 == AddMsg(Store, ConvOf(h), "assistant", content, None, now)
       IN /\ conversations' = st1[1]
          /\ sent' = st1[2]
          /\ Step(h, [l EXCEPT !.pc = "decline_update",
                               !.msgs = Append(@, <<"assistant", content>>)])

\* lines 302-311: awaiting_decision is cleared and the response returned
DeclineUpdate(h) ==
    /\ handlers[h].pc = "decline_update"
    /\ LET kw == [awaiting_decision |-> Some(FALSE)]
       IN /\ conversations' = update_state(conversations, ConvOf(h),
                                           ConversationState(kw), now)
          /\ sent' = sent
          /\ Finish(h, [handlers[h] EXCEPT !.kw = Some(kw)],
                    ChatResponse([summary |->
                                      Some("No problem! Let me know if you change your mind."),
                                  conversation_id |-> Some(ConvOf(h)),
                                  awaiting_user_input |-> Some(FALSE)]))

\* _handle_general_question, lines 322-329: the context is read
AskRead(h) ==
    /\ handlers[h].pc = "question"
    /\ Step(h, [handlers[h] EXCEPT !.pc = "chat",
                                   !.snap = Some(conversations[ConvOf(h)].state)])
    /\ UNCHANGED <<conversations, sent>>

\* lines 332-341: bedrock.chat(...) answers or raises
AskChat(h, outcome) ==
    /\ handlers[h].pc = "chat"
    /\ Step(h, [handlers[h] EXCEPT !.pc = "ask_add", !.gw = Some(outcome)])
    /\ UNCHANGED <<conversations, sent>>

\* lines 343-355: the answer is stored and returned
AskAdd(h) ==
    /\ handlers[h].pc = "ask_add"
    /\ LET l == handlers[h]
           end == GeneralQuestionEnd(Store, ConvOf(h), TheValue(l.gw), now)
       IN /\ conversations' = end[1][1]
          /\ sent' = end[1][2]
          /\ Finish(h, [l EXCEPT !.msgs = Append(@, <<"assistant",
                                                     TheValue(end[2].body.summary)>>)],
                    end[2])

NextTwo ==
    \/ \E h \in Workers, body \in TwoRequests : Arrive(h, body)
    \/ \E h \in Workers : AddUser(h)
    \/ \E h \in Workers : ApplyRead(h)
    \/ \E h \in Workers, outcome \in ImproveOutcomes : ApplyImprove(h, outcome)
    \/ \E h \in Workers : ApplyAdd(h)
    \/ \E h \in Workers : ApplyUpdate(h)
    \/ \E h \in Workers : DeclineAdd(h)
    \/ \E h \in Workers : DeclineUpdate(h)
    \/ \E h \in Workers : AskRead(h)
    \/ \E h \in Workers, outcome \in ChatOutcomes : AskChat(h, outcome)
    \/ \E h \in Workers : AskAdd(h)

(***************************************************************************)
(* The locks of the three stores.  Every public method of RateLimiter,     *)
(* JobManager and ConversationManager is one `with self._lock:` block.     *)
(***************************************************************************)
Stores == {"rate", "jobs", "conv"}

Holder(s) == CASE s = "rate" -> rl_lock [] s = "jobs" -> jm_lock [] s = "conv" -> cm_lock

\* the lock of store s gets the holder h
SetHolder(s, h) ==
    /\ rl_lock' = IF s = "rate" THEN h ELSE rl_lock
    /\ jm_lock' = IF s = "jobs" THEN h ELSE jm_lock
    /\ cm_lock' = IF s = "conv" THEN h ELSE cm_lock

\* a thread calls a method of store s and comes to its with statement
Enter(th, s) ==
    /\ op[th].pc = "idle"
    /\ op' = [op EXCEPT ![th] = [pc |-> "wait", store |-> s]]
    /\ UNCHANGED <<now, rlVars, jmVars, cmVars, chatVars, rl_lock, jm_lock>>

\* Lock.__enter__: the thread goes on once the lock is free, and holds it
Acquire(th) ==
    /\ op[th].pc = "wait"
    /\ Holder(op[th].store) = None
    /\ SetHolder(op[th].store, Some(th))
    /\ op' = [op EXCEPT ![th].pc = "locked"]
    /\ UNCHANGED <<now, rlVars, jmVars, conversations, nextConv, cm_pc, cm_left, sent,
                   chatVars>>

\* Lock.__exit__: who holds the lock once th has left the block, by a return
\* in its middle (early) or by reaching its end
ExitLock_KeptOnEarlyReturn(th, early) == IF early THEN Some(th) ELSE None
ExitLock(th, early) == None

Inside(th, s) == op[th] = [pc |-> "locked", store |-> s]

\* th leaves the block of store s
Leave(th, s, early) ==
    /\ SetHolder(s, ExitLock(th, early))
    /\ op' = [op EXCEPT ![th] = [pc |-> "idle", store |-> "-"]]

\* RateLimiter.check, lines 25-36: every path ends in a return; the last one
\* is the return after the increment
LockedCheck(th, ip) ==
    /\ Inside(th, "rate")
    /\ LET r == CheckLocked(buckets, limit, ip, now)
       IN /\ buckets' = r[1]
          /\ Leave(th, "rate", OpensWindow(buckets, ip, now) \/ r[2] # None)
    /\ calls' = [calls EXCEPT ![ip] =
                    IF OpensWindow(buckets, ip, now) THEN 1 ELSE Min(@ + 1, limit + 2)]
    /\ rl_last' = None
    /\ UNCHANGED <<now, limit, rl_pc, rl_ip, rl_now, jmVars, conversations, nextConv,
                   cm_pc, cm_left, sent, chatVars>>

\* RateLimiter.reset, lines 39-40
LockedReset(th) ==
    /\ Inside(th, "rate")
    /\ buckets' = EmptyDict
    /\ calls' = [i \in Ips |-> 0]
    /\ rl_last' = None
    /\ Leave(th, "rate", FALSE)
    /\ UNCHANGED <<now, limit, rl_pc, rl_ip, rl_now, jmVars, conversations, nextConv,
                   cm_pc, cm_left, sent, chatVars>>

\* JobManager.create_job, lines 19-20
LockedCreateJob(th) ==
    /\ Inside(th, "jobs")
    /\ nextJob < MaxJobs
    /\ nextJob' = nextJob + 1
    /\ jobs' = DictSet(jobs, nextJob + 1, [status |-> "queued", created_at |-> now])
    /\ jm_last' = None
    /\ Leave(th, "jobs", FALSE)
    /\ UNCHANGED <<now, rlVars, task, cl, conversations, nextConv, cm_pc, cm_left, sent,
                   chatVars>>

\* JobManager.set_status, lines 24-26: nothing is done for an unknown id
LockedSetStatus(th, job_id) ==
    /\ Inside(th, "jobs")
    /\ jobs' = set_status(jobs, job_id, "running", EmptyDict)
    /\ jm_last' = None
    /\ Leave(th, "jobs", FALSE)
    /\ UNCHANGED <<now, rlVars, nextJob, task, cl, conversations, nextConv, cm_pc,
                   cm_left, sent, chatVars>>

\* JobManager.cleanup, lines 35-39, with the ttl the endpoint allows
LockedCleanup(th) ==
    /\ Inside(th, "jobs")
    /\ jobs' = cleanup(jobs, now, min_ttl)[1]
    /\ jm_last' = None
    /\ Leave(th, "jobs", FALSE)
    /\ UNCHANGED <<now, rlVars, nextJob, task, cl, conversations, nextConv, cm_pc,
                   cm_left, sent, chatVars>>

\* ConversationManager.create_conversation, lines 33-36
LockedCreateConversation(th) ==
    /\ Inside(th, "conv")
    /\ nextConv < MaxConvs
    /\ nextConv' = nextConv + 1
    /\ conversations' = create_conversation(conversations, nextConv + 1, now)
    /\ chat_last' = None
    /\ Leave(th, "conv", FALSE)
    /\ UNCHANGED <<now, rlVars, jmVars, cm_pc, cm_left, sent, handlers, chats>>

\* ConversationManager.add_message, lines 67-78: returns at once when the
\* conversation is missing
LockedAddMessage(th, id) ==
    /\ Inside(th, "conv")
    /\ id \in DOMAIN conversations => TotalMessages(conversations) < MaxMsgs
    /\ LET st1 == AddMsg(Store, id, "user", "First", None, now)
       IN /\ conversations' = st1[1]
          /\ sent' = st1[2]
    /\ chat_last' = None
    /\ Leave(th, "conv", id \notin DOMAIN conversations)
    /\ UNCHANGED <<now, rlVars, jmVars, nextConv, cm_pc, cm_left, handlers, chats>>

\* ConversationManager.update_state, lines 92-111: returns at once when the
\* conversation is missing
LockedUpdateState(th, id) ==
    /\ Inside(th, "conv")
    /\ conversations' = update_state(conversations, id,
                                     ConversationState([awaiting_decision |-> Some(TRUE)]),
                                     now)
    /\ chat_last' = None
    /\ Leave(th, "conv", id \notin DOMAIN conversations)
    /\ UNCHANGED <<now, rlVars, jmVars, nextConv, cm_pc, cm_left, sent, handlers, chats>>

\* ConversationManager.delete_conversation, lines 162-166: returns True from
\* inside the if, False after it
LockedDeleteConversation(th, id) ==
    /\ Inside(th, "conv")
    /\ conversations' = delete_conversation(conversations, id)[1]
    /\ sent' = [sent EXCEPT ![id] = <<>>]
    /\ chat_last' = None
    /\ Leave(th, "conv", id \in DOMAIN conversations)
    /\ UNCHANGED <<now, rlVars, jmVars, nextConv, cm_pc, cm_left, handlers, chats>>

\* the methods that only read: JobManager.get and active_count,
\* ConversationManager.get_conversation, get_conversation_context (which
\* returns at once when the conversation is missing) and list_conversations
LockedRead(th, s) ==
    /\ s \in {"jobs", "conv"}
    /\ Inside(th, s)
    /\ Leave(th, s, TRUE)
    /\ UNCHANGED <<now, rlVars, jmVars, conversations, nextConv, cm_pc, cm_left, sent,
                   chatVars>>

\* th ends the method it is in
Returns(th) ==
    \/ LockedCheck(th, "1.2.3.4")
    \/ LockedReset(th)
    \/ LockedCreateJob(th)
    \/ \E job_id \in 1..(MaxJobs + 1) : LockedSetStatus(th, job_id)
    \/ LockedCleanup(th)
    \/ LockedCreateConversation(th)
    \/ \E id \in {1, UnknownConv} : LockedAddMessage(th, id)
    \/ \E id \in {1, UnknownConv} : LockedUpdateState(th, id)
    \/ \E id \in {1, UnknownConv} : LockedDeleteConversation(th, id)
    \/ \E s \in Stores : LockedRead(th, s)

NextLocks ==
    \/ \E th \in Threads, s \in Stores : Enter(th, s)
    \/ \E th \in Threads : Acquire(th)
    \/ \E th \in Threads : LockedCheck(th, "1.2.3.4")
    \/ \E th \in Threads : LockedReset(th)
    \/ \E th \in Threads : LockedCreateJob(th)
    \/ \E th \in Threads, job_id \in 1..(MaxJobs + 1) : LockedSetStatus(th, job_id)
    \/ \E th \in Threads : LockedCleanup(th)
    \/ \E th \in Threads : LockedCreateConversation(th)
    \/ \E th \in Threads, id \in {1, UnknownConv} : LockedAddMessage(th, id)
    \/ \E th \in Threads, id \in {1, UnknownConv} : LockedUpdateState(th, id)
    \/ \E th \in Threads, id \in {1, UnknownConv} : LockedDeleteConversation(th, id)
    \/ \E th \in Threads, s \in Stores : LockedRead(th, s)

(***************************************************************************)
(* run_job beside the other callers of the JobManager: the task of a job   *)
(* takes the lock inside each set_status, and awaits work() between them   *)
(***************************************************************************)
\* run_job, lines 47-49: who holds the lock while work() is awaited; the
\* with block of set_status was left before the await
HeldDuringWork_Task(j) == Some("run_job")
HeldDuringWork(j) == None

\* app/api/jobs.py line 67: asyncio.create_task(run_job(job_id, job_coro))
\* for a job that create_job has made
SpawnJob(j) ==
    /\ j <= nextJob
    /\ task[j] = "none"
    /\ task' = [task EXCEPT ![j] = "spawned"]
    /\ jm_last' = None
    /\ UNCHANGED <<now, jobs, nextJob, cl, notJm>>

\* run_job, line 47: set_status(job_id, "running") once the lock is free,
\* then the await of line 49
WorkStart(j) ==
    /\ task[j] = "spawned"
    /\ jm_lock = None
    /\ jobs' = set_status(jobs, j, "running", EmptyDict)
    /\ task' = [task EXCEPT ![j] = "awaiting"]
    /\ jm_lock' = HeldDuringWork(j)
    /\ jm_last' = None
    /\ UNCHANGED <<now, nextJob, cl, rlVars, cmVars, chatVars, rl_lock, op>>

\* run_job, lines 49-60: work() returned, and set_status takes the lock
WorkReturn(j, result) ==
    /\ jm_lock = None
    /\ RunJobReturn(j, result)

\* run_job, lines 61-62: work() raised, and set_status takes the lock
WorkRaise(j, msg) ==
    /\ jm_lock = None
    /\ RunJobRaise(j, msg)

NextWork ==
    \/ \E th \in Threads : Enter(th, "jobs")
    \/ \E th \in Threads : Acquire(th)
    \/ \E th \in Threads : LockedCreateJob(th)
    \/ \E th \in Threads, job_id \in JobIds : LockedSetStatus(th, job_id)
    \/ \E th \in Threads : LockedCleanup(th)
    \/ \E th \in Threads : LockedRead(th, "jobs")
    \/ \E j \in JobIds : SpawnJob(j)
    \/ \E j \in JobIds : WorkStart(j)
    \/ \E j \in JobIds : WorkReturn(j, PyModel(ChatResponseOk))
    \/ \E j \in JobIds : WorkRaise(j, "boom")

(***************************************************************************)
(* POST /chat/submit (app/api/jobs.py)                                     *)
(***************************************************************************)
\* settings.max_concurrent_jobs (ge=1), taken small so that the server gets busy
max_concurrent_jobs == 1

\* the submitted bodies: code in either field, no code, blank code
SubmitBodies ==
    { ChatRequest(Some(CodeA), None, None, None, None),
      ChatRequest(None, Some(CodeB), None, None, None),
      ChatRequest(None, None, None, None, None),
      ChatRequest(Some(""), None, None, None, None) }

RateLimitExceeded(retry_after) == [kind |-> "RateLimitExceeded", retry_after |-> retry_after]
ServerBusy(active_jobs, max_concurrent) ==
    [kind |-> "ServerBusy", active_jobs |-> active_jobs, max_concurrent |-> max_concurrent]
Submitted(job_id) == [kind |-> "submitted", job_id |-> job_id]

\* submit_chat, lines 50-68: how the call ends, given what rate_limiter.check
\* returned and the job map it finds
SubmitResponse_ValidationFirst(retry_after, js, body, job_id) ==
    IF retry_after # None THEN RateLimitExceeded(TheValue(retry_after))
    ELSE IF ~TruthyStr(get_code(body)) THEN InvalidInput
    ELSE IF active_count(js) >= max_concurrent_jobs
    THEN ServerBusy(active_count(js), max_concurrent_jobs)
    ELSE Submitted(job_id)
SubmitResponse(retry_after, js, body, job_id) ==
    IF retry_after # None THEN RateLimitExceeded(TheValue(retry_after))
    ELSE IF active_count(js) >= max_concurrent_jobs
    THEN ServerBusy(active_count(js), max_concurrent_jobs)
    ELSE IF ~TruthyStr(get_code(body)) THEN InvalidInput
    ELSE Submitted(job_id)

\* whether the call gets to create_job and create_task, lines 62-67
CreatesJob_Never(resp) == FALSE
CreatesJob_BeforeChecks(resp) == resp.kind # "RateLimitExceeded"
CreatesJob(resp) == resp.kind = "submitted"

\* the clock of the submitters is sampled at 0 and just after the first window
SubmitInstants == {0, WindowTicks + 1}
AdvanceSubmit == AdvanceTo(SubmitInstants)

\* submit_chat, lines 49-68; nothing is awaited, so the call is one step
SubmitChat(ip, body) ==
    LET r == CheckLocked(buckets, limit, ip, now)
        resp == SubmitResponse(r[2], jobs, body, nextJob + 1)
    IN /\ CreatesJob(resp) => nextJob < MaxJobs
       /\ buckets' = r[1]
       /\ rl_last' = None
       /\ calls' = [calls EXCEPT ![ip] =
                       IF OpensWindow(buckets, ip, now) THEN 1 ELSE Min(@ + 1, limit + 2)]
       /\ IF CreatesJob(resp)
          THEN /\ nextJob' = nextJob + 1
               /\ jobs' = DictSet(jobs, nextJob + 1, [status |-> "queued", created_at |-> now])
               /\ task' = [task EXCEPT ![nextJob + 1] = "spawned"]
          ELSE UNCHANGED <<nextJob, jobs, task>>
       /\ jm_last' = Some([op |-> "submit", resp |-> resp])
       /\ UNCHANGED <<now, limit, rl_pc, rl_ip, rl_now, cl, cmVars, chatVars, lockVars>>

\* the submitters, and the tasks they start running _analyze_code, which
\* returns a ChatResponse or raises
NextSubmit ==
    \/ AdvanceSubmit
    \/ \E ip \in Ips, body \in SubmitBodies : SubmitChat(ip, body)
    \/ \E j \in JobIds : RunJobStart(j)
    \/ \E j \in JobIds : RunJobReturn(j, PyModel(ChatResponseOk))
    \/ \E j \in JobIds : RunJobRaise(j, "boom")

Init ==
    /\ now = 0
    /\ limit = MaxLimit
    /\ InitRL
    /\ InitJM
    /\ InitCM
    /\ InitChat
    /\ InitLocks

\* a RateLimiter of any limit L >= 1
InitAnyLimit ==
    /\ now = 0
    /\ limit \in 1..MaxLimit
    /\ InitRL
    /\ InitJM
    /\ InitCM
    /\ InitChat
    /\ InitLocks

\* a RateLimiter built with a limit of 0 or less
InitNoLimit ==
    /\ now = 0
    /\ limit \in {0 - 1, 0}
    /\ InitRL
    /\ InitJM
    /\ InitCM
    /\ InitChat
    /\ InitLocks

\* one caller at a time, every identifier
SpecRL == InitAnyLimit /\ [][NextRLOf({"t1"}, Ips)]_vars

SpecRLNoLimit == InitNoLimit /\ [][NextRLOf({"t1"}, Ips)]_vars

SpecRLAll == InitAnyLimit /\ [][NextRLAll]_vars

\* concurrent callers of one identifier
SpecRLConc == InitAnyLimit /\ [][NextRLOf(Threads, {"1.2.3.4"})]_vars

SpecJM == Init /\ [][NextJM]_vars

SpecCM == Init /\ [][NextCM]_vars

SpecCMState == Init /\ [][NextCMState]_vars

SpecCMConc == Init /\ [][NextCMConc]_vars

SpecChat == Init /\ [][NextChat]_vars

SpecLookup == Init /\ [][NextChatOf(LookupRequests, {Raise, BothIssues})]_vars

SpecFixes == Init /\ [][NextChatOf(ApplyRequests, {BothIssues, TypedAndEmpty})]_vars

SpecRun == Init /\ [][NextRun]_vars

\* the event loop runs every task it was given and a cleanup that has read
\* the clock goes on; nothing makes the awaited gateway call come back
SpecRunFair ==
    /\ Init
    /\ [][NextRun]_vars
    /\ \A j \in JobIds : WF_vars(RunJobStart(j))
    /\ WF_vars(CleanupBody)

SpecSubmit == Init /\ [][NextSubmit]_vars

\* the chat endpoint once a first analysis has found a security and a
\* performance issue in CodeA
Analysed ==
    NewAnalysisFinish(NewAnalysisBegin(<<EmptyDict, [c \in ConvIds |-> <<>>]>>, 1, CodeA, 0),
                      1, CodeA, FALSE, BothIssues, 0)[1]
InitApply ==
    /\ now = 0
    /\ limit = MaxLimit
    /\ InitRL
    /\ InitJM
    /\ conversations = Analysed[1]
    /\ sent = Analysed[2]
    /\ nextConv = 1
    /\ cm_lock = None
    /\ cm_pc = [th \in Threads |-> "idle"]
    /\ cm_left = [th \in Threads |-> MsgsPerThread]
    /\ InitChat
    /\ InitLocks

SpecApply == InitApply /\ [][NextChat]_vars

\* an analysed conversation and the handlers of two requests about to start
InitTwo ==
    /\ now = 0
    /\ limit = MaxLimit
    /\ InitRL
    /\ InitJM
    /\ conversations = Analysed[1]
    /\ sent = Analysed[2]
    /\ nextConv = 1
    /\ cm_lock = None
    /\ cm_pc = [th \in Threads |-> "idle"]
    /\ cm_left = [th \in Threads |-> MsgsPerThread]
    /\ handlers = [h \in Workers |-> Idle]
    /\ chats = 0
    /\ chat_last = None
    /\ InitLocks

SpecTwo == InitTwo /\ [][NextTwo]_vars

SpecWork == Init /\ [][NextWork]_vars

SpecLocks == Init /\ [][NextLocks]_vars

(***************************************************************************)
(* Properties of the RateLimiter                                           *)
(***************************************************************************)
LastCheck == TheValue(rl_last)

\* C1: with limit L >= 1, the first L checks of an identifier inside one window
\* each return None, and the (L+1)th check inside that window returns a
\* retry-after that is at least 1.
C1_AllowThenLimit ==
    rl_last # None =>
        /\ calls[LastCheck.ip] <= limit => LastCheck.ret = None
        /\ calls[LastCheck.ip] = limit + 1 =>
               LastCheck.ret # None /\ TheValue(LastCheck.ret) >= 1

C1_Witness ==
    /\ rl_last # None
    /\ limit >= 2
    /\ calls[LastCheck.ip] = limit + 1
    /\ LastCheck.ret # None

\* C2 as stated: a check of an identifier that has a bucket, made at any time
\* now >= window_reset (the boundary included), returns None and leaves the
\* bucket with count = 1 and window_reset = now + 60 s.
C2_ResetAtOrAfterBoundary ==
    (rl_last # None /\ LastCheck.pre # None /\ LastCheck.t >= TheValue(LastCheck.pre).reset) =>
        /\ LastCheck.ret = None
        /\ buckets[LastCheck.ip] = [count |-> 1, reset |-> LastCheck.t + WindowTicks]

\* C2 amended: the window is reset only strictly after window_reset
\* (now > window_reset): that check returns None and leaves count = 1 and
\* window_reset = now + 60 s whatever the count was.  At now = window_reset the
\* old window still applies: the check is rejected if count >= limit and
\* counted otherwise, and window_reset stays.
C2_ResetAfterWindow ==
    (rl_last # None /\ LastCheck.pre # None) =>
        LET pre == TheValue(LastCheck.pre) IN
        /\ LastCheck.t > pre.reset =>
               /\ LastCheck.ret = None
               /\ buckets[LastCheck.ip] = [count |-> 1, reset |-> LastCheck.t + WindowTicks]
        /\ (LastCheck.t = pre.reset /\ pre.count >= limit) =>
               /\ LastCheck.ret # None
               /\ buckets[LastCheck.ip] = pre
        /\ (LastCheck.t = pre.reset /\ pre.count < limit) =>
               /\ LastCheck.ret = None
               /\ buckets[LastCheck.ip] = [count |-> pre.count + 1, reset |-> pre.reset]

C2_Witness ==
    /\ rl_last # None
    /\ LastCheck.pre # None
    /\ LastCheck.t > TheValue(LastCheck.pre).reset
    /\ TheValue(LastCheck.pre).count >= limit
    /\ buckets[LastCheck.ip].count = 1

\* C23: with limit L >= 1 and callers of check and reset interleaved in any
\* way, every bucket has 1 <= count <= L, and a check that finds count = L
\* inside the window is rejected and leaves the count at L
C23_CountWithinLimit ==
    /\ \A ip \in DOMAIN buckets : 1 <= buckets[ip].count /\ buckets[ip].count <= limit
    /\ (/\ rl_last # None
        /\ LastCheck.pre # None
        /\ TheValue(LastCheck.pre).count = limit
        /\ LastCheck.t <= TheValue(LastCheck.pre).reset)
       => /\ LastCheck.ret # None
          /\ buckets[LastCheck.ip].count = limit

\* a check that found count = L = 2 was rejected while the other caller had
\* read the clock and was waiting for the lock
C23_Witness ==
    /\ limit = 2
    /\ rl_last # None
    /\ LastCheck.pre # None
    /\ TheValue(LastCheck.pre).count = limit
    /\ LastCheck.ret # None
    /\ \E th \in Threads : rl_pc[th] = "read"

\* C24 as stated: with a limit of 0 or less every check is rejected, the
\* first one of an identifier and the first one after a window included
C24_NoLimitAlwaysRejects ==
    (limit <= 0 /\ rl_last # None) => LastCheck.ret # None

\* C25: with callers interleaved in any way, as long as no more than L checks
\* of an identifier were made in its window every one of them was allowed, and
\* the count of the bucket is the number of those checks: no increment is lost
C25_NoLostIncrement ==
    /\ \A ip \in DOMAIN buckets :
           (calls[ip] >= 1 /\ calls[ip] <= limit) => buckets[ip].count = calls[ip]
    /\ (rl_last # None /\ calls[LastCheck.ip] <= limit) => LastCheck.ret = None

\* two callers raced for the bucket: the one that read the clock first took
\* the lock last, was allowed, and the count is 2
C25_Witness ==
    /\ rl_last # None
    /\ LastCheck.pre # None
    /\ LastCheck.t < TheValue(LastCheck.pre).reset - WindowTicks
    /\ LastCheck.ret = None
    /\ calls[LastCheck.ip] = 2
    /\ buckets[LastCheck.ip].count = 2

\* C26: a check of an identifier leaves the bucket of every other identifier
\* as it was, and a rejected check leaves every bucket as it was
C26_CheckTouchesOwnBucketOnly ==
    [][\A th \in Threads :
          CheckBody(th)
          => /\ \A other \in Ips \ {rl_ip[th]} :
                    DictGet(buckets', other) = DictGet(buckets, other)
             /\ TheValue(rl_last').ret # None => buckets' = buckets]_vars

\* a check was rejected while the other identifier had a bucket of its own
C26_Witness ==
    /\ rl_last # None
    /\ LastCheck.ret # None
    /\ \E other \in DOMAIN buckets : other # LastCheck.ip

\* whole seconds covering d ticks, rounded up
CeilSeconds(d) == IF d <= 0 THEN 0 ELSE (d + TicksPerSecond - 1) \div TicksPerSecond

\* C27: a rejected check returns max(1, ceil(window_reset - now)) seconds,
\* the time left in the window rounded up and never less than 1
C27_RetryAfterIsCeiling ==
    (rl_last # None /\ LastCheck.ret # None)
        => TheValue(LastCheck.ret)
             = Max(1, CeilSeconds(TheValue(LastCheck.pre).reset - LastCheck.t))

\* C35: when the last check was rejected at time t with retry-after r, the
\* next check, made for the same identifier at time t + r, is allowed
C35_RetryAtGuidanceIsAllowed ==
    [][\A th \in Threads :
          (/\ CheckBody(th)
           /\ rl_last # None
           /\ LastCheck.ret # None
           /\ rl_ip[th] = LastCheck.ip
           /\ rl_now[th] = LastCheck.t + TheValue(LastCheck.ret) * TicksPerSecond)
          => TheValue(rl_last').ret = None]_vars

(***************************************************************************)
(* Properties of the JobManager                                            *)
(***************************************************************************)
Terminal == {"done", "error"}

ActiveJobs(js) == { j \in DOMAIN js : js[j].status \in {"queued", "running"} }

\* C3: in every reachable state active_count() is the number of stored jobs
\* whose status is queued or running, and every step that moves a job to done
\* or error lowers active_count() by exactly one.
C3_ActiveCount ==
    /\ [](active_count(jobs) = Cardinality(ActiveJobs(jobs)))
    /\ [][ \A j \in DOMAIN jobs \cap DOMAIN jobs' :
              (jobs'[j].status \in Terminal /\ jobs[j].status # jobs'[j].status)
                  => active_count(jobs') = active_count(jobs) - 1 ]_vars

C3_Witness ==
    /\ \E j \in DOMAIN jobs : jobs[j].status = "done"
    /\ \E j \in DOMAIN jobs : jobs[j].status = "error"
    /\ active_count(jobs) = 0

LastJm == TheValue(jm_last)

\* C4: cleanup(ttl) removes exactly the jobs whose age now - created_at is
\* greater than ttl, whatever their status, leaves every other record
\* unchanged, and returns the number of jobs it removed.
C4_CleanupExact ==
    (jm_last # None /\ LastJm.op = "cleanup") =>
        LET pre == LastJm.pre
            old == { j \in DOMAIN pre :
                       LastJm.t - pre[j].created_at > LastJm.ttl * TicksPerSecond }
        IN /\ DOMAIN jobs = DOMAIN pre \ old
           /\ \A j \in DOMAIN jobs : jobs[j] = pre[j]
           /\ LastJm.removed = Cardinality(old)

\* a cleanup that removed a running job, kept a job of age exactly ttl > 0
C4_Witness ==
    /\ jm_last # None
    /\ LastJm.op = "cleanup"
    /\ LastJm.removed = 1
    /\ \E j \in DOMAIN LastJm.pre \ DOMAIN jobs : LastJm.pre[j].status = "running"
    /\ \E j \in DOMAIN jobs : LastJm.t - jobs[j].created_at < LastJm.ttl * TicksPerSecond

\* C10 as stated: the outcome of get_job_result is decided by the record:
\* unknown id -> JobNotFound; queued or running -> a pending indicator; done ->
\* the stored result; error -> an error carrying the stored error message.
C10_ResultByRecord ==
    (jm_last # None /\ LastJm.op = "chat_result") =>
        LET resp == LastJm.resp IN
        IF LastJm.job = None THEN resp = JobNotFound(LastJm.job_id)
        ELSE LET rec == TheValue(LastJm.job) IN
             CASE rec.status \in {"queued", "running"} ->
                      resp.code = 202 /\ resp.content.status = rec.status
               [] rec.status = "done" -> resp.code = 200 /\ resp.content = rec.result
               [] rec.status = "error" -> resp.code = 500 /\ resp.detail = rec.error

\* C10 amended: as stated, except that for status error the error carries the
\* stored message only when that message is non-empty; an empty stored message
\* is replaced by "unknown error".
C10_ResultByRecordOrDefault ==
    (jm_last # None /\ LastJm.op = "chat_result") =>
        LET resp == LastJm.resp IN
        IF LastJm.job = None THEN resp = JobNotFound(LastJm.job_id)
        ELSE LET rec == TheValue(LastJm.job) IN
             CASE rec.status \in {"queued", "running"} ->
                      resp.code = 202 /\ resp.content.status = rec.status
               [] rec.status = "done" -> resp.code = 200 /\ resp.content = rec.result
               [] rec.status = "error" ->
                      /\ resp.code = 500
                      /\ rec.error # "" => resp.detail = rec.error
                      /\ rec.error = "" => resp.detail = "unknown error"

C10_Witness ==
    /\ jm_last # None
    /\ LastJm.op = "chat_result"
    /\ LastJm.job # None
    /\ TheValue(LastJm.job).status = "error"
    /\ TheValue(LastJm.job).error = "boom"
    /\ LastJm.resp.detail = "boom"

\* the order of the statuses: queued, then running, then done or error
Rank(status) == CASE status = "queued" -> 0 [] status = "running" -> 1 [] OTHER -> 2

C17_RaiseBecomesError ==
    [][\A j \in JobIds, m \in ErrMsgs :
          RunJobRaise(j, m)
          => /\ task'[j] = "finished"
             /\ DOMAIN jobs' = DOMAIN jobs
             /\ j \in DOMAIN jobs
                => /\ jobs'[j].status = "error"
                   /\ jobs'[j].error = m
                   /\ "completed_at" \in DOMAIN jobs'[j]
                   /\ jobs'[j].completed_at = now]_vars

\* the work of a job raised "boom" and its record shows it, while the record
\* of another job, whose work ended too, was removed before
C17_Witness ==
    \E j, k \in JobIds :
        /\ task[j] = "finished"
        /\ j \in DOMAIN jobs
        /\ jobs[j].status = "error"
        /\ jobs[j].error = "boom"
        /\ task[k] = "finished"
        /\ k \notin DOMAIN jobs

\* the returned values that run_job turns into an error
ReturnsNone(v) == v = PyNone
ReturnsError(v) == v.t = "dict" /\ "error" \in DOMAIN v.d /\ v.d.error # ""

\* C18 as stated: whatever value the work of job j returns, the record of j,
\* if still in the map, ends in done with the value as result and completed_at
C18_EveryReturnIsDone ==
    [][\A j \in JobIds, v \in RunValues :
          (RunJobReturn(j, v) /\ j \in DOMAIN jobs)
          => /\ jobs'[j].status = "done"
             /\ "result" \in DOMAIN jobs'[j]
             /\ jobs'[j].completed_at = now]_vars

\* C18, amended: a returned value that is neither None nor a dict with a
\* non-empty error ends in done with result = the value (a model as its dict);
\* None ends in error "No result returned from code review."; a dict with a
\* non-empty error ends in error = its summary, or "Bedrock error" without
\* one; completed_at is set in all three cases
C18_ReturnIsDoneUnlessNoneOrError ==
    [][\A j \in JobIds, v \in RunValues :
          (RunJobReturn(j, v) /\ j \in DOMAIN jobs)
          => /\ task'[j] = "finished"
             /\ jobs'[j].completed_at = now
             /\ IF ReturnsNone(v)
                THEN /\ jobs'[j].status = "error"
                     /\ jobs'[j].error = "No result returned from code review."
                ELSE IF ReturnsError(v)
                THEN /\ jobs'[j].status = "error"
                     /\ jobs'[j].error = IF "summary" \in DOMAIN v.d
                                         THEN v.d.summary ELSE "Bedrock error"
                ELSE /\ jobs'[j].status = "done"
                     /\ jobs'[j].result = v.d]_vars

\* one job is done with the dict of the returned model, another is in error
\* because its work returned a dict with an error and no summary
C18_Witness ==
    \E j, k \in JobIds :
        /\ j \in DOMAIN jobs
        /\ jobs[j].status = "done"
        /\ jobs[j].result = ChatResponseOk
        /\ k \in DOMAIN jobs
        /\ jobs[k].status = "error"
        /\ jobs[k].error = "Bedrock error"

\* C19 as stated: a job that is running is eventually done or in error (or
\* its record is removed), whether or not the awaited call ever comes back
C19_RunningEventuallyEnds ==
    \A j \in JobIds :
        (j \in DOMAIN jobs /\ jobs[j].status = "running")
        ~> (j \notin DOMAIN jobs \/ jobs[j].status \in {"done", "error"})

\* C28: a status write for a job id that is not in the map changes nothing
\* and run_job goes on to its end; a job that cleanup removed while its work
\* was in progress is not recreated by the write made when the work ends, and
\* get of its id stays none
C28_StatusWriteOnMissingJobIsNoOp ==
    [][\A j \in JobIds :
          (task[j] # "none" /\ j \notin DOMAIN jobs)
             => /\ \A s \in {"running", "done", "error"} :
                      set_status(jobs, j, s, [completed_at |-> now]) = jobs
                /\ get(jobs', j) = None
                /\ task'[j] # task[j]
                     => /\ jobs' = jobs
                        /\ task[j] = "awaiting" => task'[j] = "finished"]_vars

\* the work of a job ended after cleanup had removed the job, and a later poll
\* of the job's result found nothing
C28_Witness ==
    \E j \in JobIds :
        /\ task[j] = "finished"
        /\ j \notin DOMAIN jobs
        /\ jm_last # None
        /\ LastJm.op = "chat_result"
        /\ LastJm.job_id = j
        /\ LastJm.resp = JobNotFound(j)

\* C32: while work() of a job is awaited the lock of the jobs is not held by
\* run_job: it is free, or held by a caller that is inside a method and can
\* finish it (create_job, set_status, cleanup, get and active_count alike),
\* and a caller that waits for the lock gets it or its holder can finish
C32_LockFreeWhileWorkRuns ==
    (\E j \in JobIds : task[j] = "awaiting") =>
        /\ jm_lock # None => \E th \in Threads : jm_lock = Some(th) /\ Inside(th, "jobs")
        /\ \A th \in Threads :
              /\ Inside(th, "jobs") =>
                    /\ nextJob < MaxJobs => ENABLED LockedCreateJob(th)
                    /\ \A job_id \in JobIds : ENABLED LockedSetStatus(th, job_id)
                    /\ ENABLED LockedCleanup(th)
                    /\ ENABLED LockedRead(th, "jobs")
              /\ op[th] = [pc |-> "wait", store |-> "jobs"]
                   => \/ ENABLED Acquire(th)
                      \/ \E other \in Threads \ {th} :
                             /\ jm_lock = Some(other)
                             /\ ENABLED LockedRead(other, "jobs")

\* two jobs are in status running, the work of both is awaited, and a caller
\* is inside a method of the JobManager
C32_Witness ==
    /\ \A j \in 1..2 : task[j] = "awaiting" /\ j \in DOMAIN jobs /\ jobs[j].status = "running"
    /\ \E th \in Threads : Inside(th, "jobs") /\ jm_lock = Some(th)

(***************************************************************************)
(* Properties of the ConversationManager                                   *)
(***************************************************************************)
\* C5: for every field of ConversationState, an update_state call whose
\* partial record does not provide the field leaves the conversation's stored
\* value of that field unchanged.
C5_AbsentFieldsUntouched ==
    [][ \A id \in DOMAIN conversations, full \in KwSamples, D \in SUBSET Fields :
            UpdateState(id, Given(full, D)) =>
                \A f \in Fields \ D :
                    conversations'[id].state[f] = conversations[id].state[f] ]_vars

\* the <<role, content, metadata>> of stored messages
Passed(msgs) == [i \in 1..Len(msgs) |-> <<msgs[i].role, msgs[i].content, msgs[i].metadata>>]

IsPrefix(a, b) == Len(a) <= Len(b) /\ \A i \in 1..Len(a) : a[i] = b[i]

\* C6: a conversation's message list is exactly the sequence of messages
\* passed to add_message, in call order: add_message only appends at the end,
\* and no operation other than delete_conversation or clear_all removes,
\* reorders or rewrites a stored message.
C6_MessagesAreTheCallsInOrder ==
    /\ [](\A id \in DOMAIN conversations : Passed(conversations[id].messages) = sent[id])
    /\ [][ \A id \in DOMAIN conversations \cap DOMAIN conversations' :
              IsPrefix(conversations[id].messages, conversations'[id].messages) ]_vars

C6_Witness ==
    \E id \in DOMAIN conversations :
        /\ Len(conversations[id].messages) = 2
        /\ conversations[id].messages[1].content = "First"
        /\ conversations[id].messages[2].content = "Second"
        /\ conversations[id].state.applied_fixes # None

\* the add_message calls that have returned
Returned == SumOver([th \in Threads |-> MsgsPerThread - cm_left[th]], Threads)

AllReturned == \A th \in Threads : cm_left[th] = 0 /\ cm_pc[th] = "idle"

\* C7: when N concurrent callers each call add_message M times on the same
\* existing conversation, in any interleaving, every call that has returned
\* has added one message, and the conversation ends with exactly N*M messages.
C7_NoLostMessage ==
    /\ 1 \in DOMAIN conversations => Len(conversations[1].messages) = Returned
    /\ AllReturned =>
           /\ 1 \in DOMAIN conversations
           /\ Len(conversations[1].messages) = Cardinality(Threads) * MsgsPerThread

\* both callers are done, and their messages are interleaved
C7_Witness ==
    /\ AllReturned
    /\ Len(conversations[1].messages) = Cardinality(Threads) * MsgsPerThread
    /\ conversations[1].messages[1].content = MessageText(0)
    /\ conversations[1].messages[2].content = MessageText(0)

(***************************************************************************)
(* Properties of the chat orchestrator                                     *)
(***************************************************************************)
LastChat == TheValue(chat_last)

\* the last request was a new analysis that succeeded
NewAnalysisAnswered ==
    /\ chat_last # None
    /\ LastChat.handler = "new_analysis"
    /\ LastChat.resp.kind = "ChatResponse"

\* the response's menu goes with its issues
MenuIffIssues(r) ==
    (r.awaiting_user_input = Some(TRUE) /\ r.suggested_actions \notin {None, Some(<<>>)})
        <=> TheValue(r.issues) # <<>>

\* pending holds the type of every issue, in order
AllTypes(pending, issues) ==
    /\ Len(pending) = Len(issues)
    /\ \A k \in 1..Len(issues) : issues[k].type = Some(pending[k])

\* pending holds the types that are non-empty strings, in order
RECURSIVE NonEmptyTypes(_, _)
NonEmptyTypes(pending, issues) ==
    IF issues = <<>> THEN pending = <<>>
    ELSE IF Head(issues).type \in {None, Some("")} THEN NonEmptyTypes(pending, Tail(issues))
    ELSE /\ pending # <<>>
         /\ Some(Head(pending)) = Head(issues).type
         /\ NonEmptyTypes(Tail(pending), Tail(issues))

StoredAsAnalysed(s, code, issues) ==
    /\ s.original_code = Some(code)
    /\ s.current_code = Some(code)
    /\ s.detected_issues = Some(issues)
    /\ s.applied_fixes = Some(<<>>)
    /\ s.awaiting_decision = Some(issues # <<>>)

\* C8 as stated: a chat request with code and no conversation_id whose
\* analysis succeeds creates exactly one conversation and returns its id; the
\* response awaits input and has a non-empty menu exactly when it has issues;
\* the stored state is original_code = current_code = code, detected_issues =
\* issues, pending_issues = the issue types, applied_fixes = empty,
\* awaiting_decision = (issues non-empty).
C8_NewAnalysisStoresAllTypes ==
    NewAnalysisAnswered =>
        LET r == LastChat.resp.body
            id == TheValue(r.conversation_id)
            code == TheValue(get_code(LastChat.body))
            issues == TheValue(r.issues)
        IN /\ LastChat.created = {id}
           /\ MenuIffIssues(r)
           /\ id \in DOMAIN conversations
           /\ StoredAsAnalysed(conversations[id].state, code, issues)
           /\ conversations[id].state.pending_issues # None
           /\ AllTypes(TheValue(conversations[id].state.pending_issues), issues)

\* C8: a chat request with code and no conversation_id whose analysis succeeds
\* creates exactly one conversation and returns its id; the response awaits
\* input and has a non-empty menu exactly when it has issues; and if the
\* conversation is still stored when the handler ends, its state is
\* original_code = current_code = code, detected_issues = issues,
\* pending_issues = the issue types that are non-empty strings, applied_fixes
\* = empty, awaiting_decision = (issues non-empty).
C8_NewAnalysis ==
    NewAnalysisAnswered =>
        LET r == LastChat.resp.body
            id == TheValue(r.conversation_id)
            code == TheValue(get_code(LastChat.body))
            issues == TheValue(r.issues)
        IN /\ r.conversation_id # None
           /\ LastChat.created = {id}
           /\ MenuIffIssues(r)
           /\ id \in DOMAIN conversations =>
                  /\ StoredAsAnalysed(conversations[id].state, code, issues)
                  /\ conversations[id].state.pending_issues # None
                  /\ NonEmptyTypes(TheValue(conversations[id].state.pending_issues), issues)

\* an analysis that was awaited found issues, one of them without a type
C8_Witness ==
    /\ NewAnalysisAnswered
    /\ Len(TheValue(LastChat.resp.body.issues)) = 2
    /\ LastChat.resp.body.awaiting_user_input = Some(TRUE)
    /\ \E id \in DOMAIN conversations :
           /\ LastChat.resp.body.conversation_id = Some(id)
           /\ conversations[id].state.pending_issues = Some(<<"SECURITY", "general">>)
           /\ Len(conversations[id].messages) = 2

\* C9: for every continuation request on an existing conversation with
\* apply_improvements = false, whatever its message text, the response has
\* improved_code = none and awaiting_user_input = false.
C9_ExplicitFalseNeverApplies ==
    ( /\ chat_last # None
      /\ LastChat.handler = "continuation"
      /\ LastChat.body.apply_improvements = Some(FALSE)
      /\ LastChat.body.message # None
      /\ LastChat.resp # NotFound )
    => /\ LastChat.resp.kind = "ChatResponse"
       /\ LastChat.resp.body.improved_code = None
       /\ LastChat.resp.body.awaiting_user_input = Some(FALSE)

\* the request body arrives at POST /chat and runs up to its first await or
\* to its end
Arrives(body) ==
    \/ ChatInvalid(body)
    \/ ChatNewFast(body)
    \/ \E h \in Handlers : ChatNewStart(h, body)
    \/ \E outcome \in ImproveOutcomes : ChatContinue(body, outcome)
    \/ \E h \in Handlers : ChatAskStart(h, body)

NamesUnknown(body) ==
    /\ body.conversation_id # None
    /\ TheValue(body.conversation_id) \notin DOMAIN conversations

\* C11: a chat request that names a conversation_id that is not in the store
\* is answered with the not-found error, whatever else it carries, and the
\* step creates no conversation, appends no message and changes no state
C11_UnknownConversationNotFound ==
    [][\A body \in LookupRequests :
          NamesUnknown(body) /\ Arrives(body)
          => /\ chat_last' # None
             /\ TheValue(chat_last').resp = NotFound
             /\ UNCHANGED <<conversations, nextConv>>]_vars

\* not found was answered to a request that carried code, while another
\* conversation was stored
C11_Witness ==
    /\ chat_last # None
    /\ LastChat.resp = NotFound
    /\ TruthyStr(get_code(LastChat.body))
    /\ \E id \in DOMAIN conversations : Len(conversations[id].messages) > 0

\* C13 as stated: a chat request with code that names a stored conversation
\* is answered with a ChatResponse carrying that id, creates no conversation,
\* and leaves original_code = current_code = the new code under that id
C13_NewCodeRestartsInPlace ==
    (/\ chat_last # None
     /\ TruthyStr(get_code(LastChat.body))
     /\ LastChat.body.conversation_id # None
     /\ LastChat.resp # NotFound)
    => LET id == TheValue(LastChat.body.conversation_id)
           code == get_code(LastChat.body)
       IN /\ LastChat.created = {}
          /\ LastChat.resp.kind = "ChatResponse"
          /\ LastChat.resp.body.conversation_id = Some(id)
          /\ id \in DOMAIN conversations
             => /\ conversations[id].state.original_code = code
                /\ conversations[id].state.current_code = code

\* C14 as stated: a chat request without code that names no conversation,
\* or names a stored one with an absent or blank message, is answered with
\* InvalidInput and the step leaves every conversation as it was
C14_NoCodeNoMessageIsInvalidInput ==
    [][\A body \in ChatRequests :
          (/\ ~TruthyStr(get_code(body))
           /\ \/ body.conversation_id = None
              \/ /\ ~NamesUnknown(body)
                 /\ ~TruthyStr(body.message)
           /\ Arrives(body))
          => /\ chat_last' # None
             /\ TheValue(chat_last').resp = InvalidInput
             /\ UNCHANGED conversations]_vars

\* the code carries the fix of issue type ty: it is a sampled code improved
\* once or twice, one of the times for ty
FixLists == {<<"SECURITY">>, <<"PERFORMANCE">>, <<"SECURITY", "PERFORMANCE">>}
HasFix(code, ty) ==
    \E base \in {CodeA, CodeB}, l \in FixLists :
        /\ ty \in Range(l)
        /\ \/ code = Some(Fixed(base, l))
           \/ \E k \in FixLists : code \in {Some(Fixed(Fixed(base, l), k)),
                                              Some(Fixed(Fixed(base, k), l))}

\* C15 as stated: Apply is cumulative: when an Apply restricted to one issue
\* type has left its fix in the stored current_code, the improved_code that a
\* later Apply restricted to another type returns, and the current_code it
\* stores, still carry that fix
C15_ApplyIsCumulative ==
    [][\A body \in ChatRequests, outcome \in ImproveOutcomes :
          (/\ ChatContinue(body, outcome)
           /\ TheValue(chat_last').resp.kind = "ChatResponse"
           /\ TheValue(chat_last').resp.body.improved_code # None)
          => LET id == TheValue(body.conversation_id)
                 state == conversations[id].state
             IN \A earlier, later \in {"SECURITY", "PERFORMANCE"} :
                    (/\ earlier # later
                     /\ state.applied_fixes = Some(<<earlier>>)
                     /\ HasFix(state.current_code, earlier)
                     /\ FixTypes(TheValue(body.message)) = Some(<<later>>))
                    => /\ HasFix(TheValue(chat_last').resp.body.improved_code, earlier)
                       /\ HasFix(conversations'[id].state.current_code, earlier)]_vars

\* C20 as stated: no chat request ends with the exception a gateway
\* operation raised (analyze, improve or chat) escaping the handler
C20_GatewayErrorsAreCaught ==
    chat_last # None => LastChat.resp # Unhandled

\* the last request was a continuation that took the Apply transition and
\* returned improved code
Applied ==
    /\ chat_last # None
    /\ LastChat.handler = "continuation"
    /\ LastChat.resp.kind = "ChatResponse"
    /\ LastChat.resp.body.improved_code # None

\* the type of every issue that has one and is not in skip, in order
RECURSIVE TypesNotIn(_, _)
TypesNotIn(issues, skip) ==
    IF issues = <<>> THEN <<>>
    ELSE (IF Head(issues).type # None /\ TheValue(Head(issues).type) \notin Range(skip)
          THEN <<TheValue(Head(issues).type)>> ELSE <<>>)
         \o TypesNotIn(Tail(issues), skip)

\* C29 as stated: after a successful Apply the stored state has current_code =
\* the improved code, applied_fixes = the restricted fix types, or the types of
\* all detected issues when the request names none, pending_issues = the types
\* of the detected issues that are not in applied_fixes, awaiting_decision =
\* (pending_issues is non-empty), and the response's awaiting_user_input is
\* that awaiting_decision
C29_StateAfterApply ==
    Applied =>
        LET state == conversations[TheValue(LastChat.body.conversation_id)].state
            issues == IF state.detected_issues # None
                      THEN TheValue(state.detected_issues) ELSE <<>>
            fix_types == FixTypes(TheValue(LastChat.body.message))
            applied == IF fix_types # None THEN TheValue(fix_types)
                       ELSE TypesNotIn(issues, <<>>)
            pending == TypesNotIn(issues, applied)
        IN /\ state.current_code = LastChat.resp.body.improved_code
           /\ state.applied_fixes = Some(applied)
           /\ state.pending_issues = Some(pending)
           /\ state.awaiting_decision = Some(pending # <<>>)
           /\ LastChat.resp.body.awaiting_user_input = state.awaiting_decision

\* C29, amended: after a successful Apply the stored state has current_code =
\* the improved code; when the request names fix types, applied_fixes = those
\* types and pending_issues = the types of the detected issues that are not
\* among them; when it names none, applied_fixes = the types of the detected
\* issues that are non-empty strings and pending_issues is empty;
\* awaiting_decision = (pending_issues is non-empty), and the response's
\* awaiting_user_input is that awaiting_decision
C29_StateAfterApplyOfTypedIssues ==
    Applied =>
        LET state == conversations[TheValue(LastChat.body.conversation_id)].state
            issues == IF state.detected_issues # None
                      THEN TheValue(state.detected_issues) ELSE <<>>
            fix_types == FixTypes(TheValue(LastChat.body.message))
        IN /\ state.current_code = LastChat.resp.body.improved_code
           /\ state.applied_fixes # None
           /\ state.pending_issues # None
           /\ IF fix_types # None
              THEN /\ state.applied_fixes = fix_types
                   /\ state.pending_issues = Some(TypesNotIn(issues, TheValue(fix_types)))
              ELSE /\ NonEmptyTypes(TheValue(state.applied_fixes), issues)
                   /\ state.pending_issues = Some(<<>>)
           /\ state.awaiting_decision = Some(state.pending_issues # Some(<<>>))
           /\ LastChat.resp.body.awaiting_user_input = state.awaiting_decision

\* an Apply of the security fix alone has left another issue pending
C29_Witness ==
    /\ Applied
    /\ conversations[1].state.applied_fixes = Some(<<"SECURITY">>)
    /\ conversations[1].state.pending_issues \notin {None, Some(<<>>)}
    /\ conversations[1].state.awaiting_decision = Some(TRUE)

\* the message says decline
SignalsDecline(body) ==
    /\ body.message # None
    /\ \/ Contains(TheValue(body.message), "decline")
       \/ Contains(TheValue(body.message), "no thanks")

\* C30 as stated: a continuation on a stored conversation whose
\* apply_improvements is explicitly false, or whose message signals decline,
\* takes the Decline transition: the step that handles it records the
\* acknowledgement as the last message, sets awaiting_decision to false and
\* leaves every other state field as it was
C30_ExplicitFalseOrDeclineDeclines ==
    [][\A body \in ChatRequests :
          (/\ Route(body) = "continuation"
           /\ Continuation(conversations, body) \notin {"not_found", "invalid_message"}
           /\ body.apply_improvements = Some(FALSE) \/ SignalsDecline(body)
           /\ \/ \E outcome \in ImproveOutcomes : ChatContinue(body, outcome)
              \/ \E h \in Handlers : ChatAskStart(h, body))
          => LET id == TheValue(body.conversation_id)
                 pre == conversations[id]
                 post == conversations'[id]
             IN /\ post.messages # <<>>
                /\ post.messages[Len(post.messages)].role = "assistant"
                /\ post.messages[Len(post.messages)].content
                     = "Understood. Let me know if you need anything else."
                /\ post.state.awaiting_decision = Some(FALSE)
                /\ \A f \in Fields \ {"awaiting_decision"} :
                      post.state[f] = pre.state[f]]_vars

\* what handler h has added and written so far
MsgsOf(h) == IF handlers[h] = Idle THEN <<>> ELSE handlers[h].msgs
KwOf(h) == IF handlers[h] = Idle \/ handlers[h].kw = None THEN <<>> ELSE TheValue(handlers[h].kw)

\* how many of the messages have this role and content
CountIn(msgs, role, content) ==
    Cardinality({k \in 1..Len(msgs) : msgs[k].role = role /\ msgs[k].content = content})
CountOf(h, role, content) ==
    Cardinality({k \in 1..Len(MsgsOf(h)) : MsgsOf(h)[k] = <<role, content>>})

\* C21: two continuation requests on one conversation, their calls to the
\* conversation manager and to the gateways interleaved in any way: every
\* message either request has added is stored, next to those stored before and
\* nothing else, and once both have ended every state field holds what the
\* requests wrote to it: a field neither wrote is as it was, and a field that
\* one or both wrote holds the value one of its writers gave it
C21_NoMessageOrUpdateLost ==
    LET before == Analysed[1][1]
        stored == conversations[1]
    IN /\ Len(stored.messages)
            = Len(before.messages) + Len(MsgsOf("w1")) + Len(MsgsOf("w2"))
       /\ \A h \in Workers : \A k \in 1..Len(MsgsOf(h)) :
              LET m == MsgsOf(h)[k]
              IN CountIn(stored.messages, m[1], m[2])
                   = CountIn(before.messages, m[1], m[2])
                     + CountOf("w1", m[1], m[2]) + CountOf("w2", m[1], m[2])
       /\ (\A h \in Workers : handlers[h].pc = "finished")
            => \A f \in Fields :
                   LET writers == {h \in Workers : f \in DOMAIN KwOf(h)}
                   IN IF writers = {} THEN stored.state[f] = before.state[f]
                      ELSE \E h \in writers : stored.state[f] = KwOf(h)[f]

\* the security fix was applied by one request and the improvements declined
\* by the other, both user messages were stored before either answer, and
\* the decline was written last
C21_Witness ==
    /\ \A h \in Workers : handlers[h].pc = "finished"
    /\ \E h \in Workers : DOMAIN KwOf(h) = {"awaiting_decision"}
    /\ conversations[1].messages[3].role = "user"
    /\ conversations[1].messages[4].role = "user"
    /\ conversations[1].state.current_code = Some(Fixed(CodeA, <<"SECURITY">>))
    /\ conversations[1].state.pending_issues = Some(<<"PERFORMANCE">>)
    /\ conversations[1].state.awaiting_decision = Some(FALSE)

\* C31: add_message and update_state on an id that is not in the store leave
\* the store as it is, and no step of a chat request or of a delete puts an
\* id back into the store: the only id a step adds is the one that
\* create_conversation issues in that step
C31_MissingIdIsNeverRecreated ==
    [][/\ \A id \in 1..UnknownConv :
            id \notin DOMAIN conversations =>
                /\ add_message(conversations, id, "assistant", "late answer", None, now)
                       = conversations
                /\ update_state(conversations, id,
                                ConversationState([awaiting_decision |-> Some(FALSE)]), now)
                       = conversations
       /\ \A id \in DOMAIN conversations' \ DOMAIN conversations :
            /\ id = nextConv + 1
            /\ nextConv' = nextConv + 1]_vars

\* a general question or a new analysis was answered for a conversation that
\* was deleted while the gateway call was awaited
C31_Witness ==
    /\ chat_last # None
    /\ LastChat.resp.kind = "ChatResponse"
    /\ LastChat.resp.body.conversation_id # None
    /\ TheValue(LastChat.resp.body.conversation_id) \notin DOMAIN conversations
    /\ TheValue(LastChat.resp.body.conversation_id) <= nextConv

\* the list a state field holds, empty when the field is None
ListOf(field) == IF field = None THEN <<>> ELSE TheValue(field)

\* in state s no type is both pending and applied, and the type of every
\* detected issue that is among the types T is pending or applied
Bookkept(s, T) ==
    /\ Range(ListOf(s.pending_issues)) \cap Range(ListOf(s.applied_fixes)) = {}
    /\ \A k \in 1..Len(ListOf(s.detected_issues)) :
          LET ty == ListOf(s.detected_issues)[k].type
          IN (ty # None /\ TheValue(ty) \in T)
                => TheValue(ty) \in Range(ListOf(s.pending_issues))
                                     \cup Range(ListOf(s.applied_fixes))

\* the types that occur in the answers of the analysis
OccurringTypes == {"SECURITY", "PERFORMANCE", "general", ""}

\* C36 as stated: in every conversation pending_issues and applied_fixes are
\* disjoint and every type that occurs in detected_issues is in one of them
C36_FixesPartitionDetectedTypes ==
    \A id \in DOMAIN conversations : Bookkept(conversations[id].state, OccurringTypes)

\* C36, amended: in every conversation pending_issues and applied_fixes are
\* disjoint and every non-empty type that occurs in detected_issues is in
\* one of them
C36_FixesPartitionNonEmptyTypes ==
    \A id \in DOMAIN conversations :
        Bookkept(conversations[id].state, OccurringTypes \ {""})

\* a conversation whose analysis found an issue without a type has had the
\* security fix applied, and the untyped issue is pending
C36_Witness ==
    \E id \in DOMAIN conversations :
        LET s == conversations[id].state
        IN /\ \E k \in 1..Len(ListOf(s.detected_issues)) :
                 ListOf(s.detected_issues)[k].type = Some("")
           /\ s.applied_fixes = Some(<<"SECURITY">>)
           /\ s.pending_issues = Some(<<"">>)

\* C37: across the Apply transitions of a conversation the applied fixes only
\* grow: a type that is in applied_fixes before an Apply is in applied_fixes
\* and not in pending_issues after it
C37_AppliedFixesStayApplied ==
    [][\A body \in ChatRequests, outcome \in ImproveOutcomes :
          (/\ ChatContinue(body, outcome)
           /\ TheValue(chat_last').resp.kind = "ChatResponse"
           /\ TheValue(chat_last').resp.body.improved_code # None)
          => LET id == TheValue(body.conversation_id)
                 before == conversations[id].state
                 after == conversations'[id].state
             IN \A ty \in Range(ListOf(before.applied_fixes)) :
                    /\ ty \in Range(ListOf(after.applied_fixes))
                    /\ ty \notin Range(ListOf(after.pending_issues))]_vars

\* the last request ended with a ChatResponse for a conversation that is
\* stored
AnsweredForStored ==
    /\ chat_last # None
    /\ LastChat.resp.kind = "ChatResponse"
    /\ LastChat.resp.body.conversation_id # None
    /\ TheValue(LastChat.resp.body.conversation_id) \in DOMAIN conversations

\* the last request was a continuation that took the Explain transition
Explained ==
    /\ chat_last # None
    /\ LastChat.handler = "continuation"
    /\ LastChat.resp.kind = "ChatResponse"
    /\ ~IntentApply(LastChat.body)
    /\ ~IntentDecline(LastChat.body)

\* the response says awaiting_user_input as the stored state says
\* awaiting_decision
AwaitingAsStored ==
    LastChat.resp.body.awaiting_user_input
        = conversations[TheValue(LastChat.resp.body.conversation_id)].state.awaiting_decision

\* C38 as stated: after every chat request that ended with a ChatResponse,
\* its awaiting_user_input equals the awaiting_decision stored in the
\* conversation
C38_AwaitingInputIsStoredDecision ==
    AnsweredForStored => AwaitingAsStored

\* C38, amended: after a New analysis, an Apply or a Decline that ended with
\* a ChatResponse, its awaiting_user_input equals the awaiting_decision
\* stored in the conversation; an Explain answers awaiting_user_input =
\* false and leaves the stored state as it was
C38_AwaitingInputIsStoredDecisionButForExplain ==
    /\ [](AnsweredForStored =>
            IF Explained THEN LastChat.resp.body.awaiting_user_input = Some(FALSE)
            ELSE AwaitingAsStored)
    /\ [][\A h \in Handlers, outcome \in ChatOutcomes :
            ChatAskFinish(h, outcome) =>
                \A id \in DOMAIN conversations :
                    conversations'[id].state = conversations[id].state]_vars

\* an Explain was answered with awaiting_user_input = false for a
\* conversation whose stored awaiting_decision is true
C38_Witness ==
    /\ AnsweredForStored
    /\ Explained
    /\ LastChat.resp.body.awaiting_user_input = Some(FALSE)
    /\ conversations[TheValue(LastChat.resp.body.conversation_id)].state.awaiting_decision
           = Some(TRUE)

\* C39: a new analysis that ended with the error response has left none of
\* the conversations it created in the store, and every stored conversation
\* that no request is working on and that holds a message has the state of
\* an analysis
C39_FailedAnalysisLeavesNoTrace ==
    /\ (/\ chat_last # None
        /\ LastChat.handler = "new_analysis"
        /\ LastChat.resp = InternalError)
          => LastChat.created \cap DOMAIN conversations = {}
    /\ \A id \in DOMAIN conversations :
          (/\ \A h \in Handlers : handlers[h] = Idle \/ handlers[h].conv_id # id
           /\ Len(conversations[id].messages) > 0)
          => conversations[id].state.detected_issues # None

(***************************************************************************)
(* Properties of the locks                                                 *)
(***************************************************************************)
\* the locks thread th holds
HeldBy(th) == {s \in Stores : Holder(s) = Some(th)}

\* C22: no thread holds more than one of the three locks; a lock is held only
\* by a thread that is inside a block of its store, so every path out of a
\* block has released it; and no interleaving deadlocks: a thread inside a
\* block can always leave it, and a thread that waits for a lock can take it
\* or the thread that holds it can leave
C22_OneLockAndNoDeadlock ==
    /\ \A th \in Threads : Cardinality(HeldBy(th)) <= 1
    /\ \A s \in Stores : Holder(s) # None => Inside(TheValue(Holder(s)), s)
    /\ \A th \in Threads :
          /\ op[th].pc = "locked" => (HeldBy(th) = {op[th].store} /\ ENABLED Returns(th))
          /\ op[th].pc = "wait"
               => \/ ENABLED Acquire(th)
                  \/ \E other \in Threads \ {th} :
                         /\ Holder(op[th].store) = Some(other)
                         /\ ENABLED Returns(other)

\* a thread waits for the lock of the conversations, which the other thread
\* holds, after a conversation has been created and deleted
C22_Witness ==
    \E th, other \in Threads :
        /\ op[th] = [pc |-> "wait", store |-> "conv"]
        /\ cm_lock = Some(other)
        /\ rl_lock = None
        /\ jm_lock = None
        /\ nextConv = 1
        /\ conversations = EmptyDict

(***************************************************************************)
(* Properties of POST /chat/submit                                         *)
(***************************************************************************)
Rejections == {"RateLimitExceeded", "ServerBusy", "InvalidInput"}

\* C12: a submit call that ends with RateLimitExceeded, ServerBusy or
\* InvalidInput leaves the job map as it was and starts no task
C12_RejectedSubmitCreatesNothing ==
    [][\A ip \in Ips, body \in SubmitBodies :
          SubmitChat(ip, body) /\ TheValue(jm_last').resp.kind \in Rejections
          => UNCHANGED <<jobs, nextJob, task>>]_vars

\* a submit was rejected for missing code while a job was stored and the
\* server was not busy
C12_Witness ==
    /\ jm_last # None
    /\ LastJm.op = "submit"
    /\ LastJm.resp = InvalidInput
    /\ jobs # EmptyDict

\* C33: when submit_chat returns a job id, the job is in the job map in
\* status queued, its task has been handed to the event loop and has not run
\* yet, and chat_status for the id answers 200; and a submit call runs to
\* its end whatever the tasks are doing, also while work() is awaited
C33_SubmitReturnsBeforeWork ==
    /\ (jm_last # None /\ LastJm.op = "submit" /\ LastJm.resp.kind = "submitted") =>
          LET job_id == LastJm.resp.job_id
          IN /\ job_id \in DOMAIN jobs
             /\ jobs[job_id].status = "queued"
             /\ task[job_id] = "spawned"
             /\ chat_status(jobs, job_id).code = 200
             /\ chat_status(jobs, job_id).content.status = Some("queued")
    /\ \A ip \in Ips, body \in SubmitBodies :
          nextJob < MaxJobs => ENABLED SubmitChat(ip, body)

\* the second job was submitted after the window of the first had passed
C33_Witness ==
    /\ jm_last # None
    /\ LastJm.op = "submit"
    /\ LastJm.resp = Submitted(2)
    /\ now > WindowTicks

\* C34 as stated: a submit call is accepted only when fewer than
\* max_concurrent_jobs jobs are queued or running, ends with ServerBusy
\* carrying both counts whenever that many are, and the number of queued or
\* running jobs never exceeds max_concurrent_jobs
C34_AtCapacityIsServerBusy ==
    [][/\ \A ip \in Ips, body \in SubmitBodies :
            SubmitChat(ip, body) =>
                LET resp == TheValue(jm_last').resp
                    active == Cardinality(ActiveJobs(jobs))
                IN /\ resp.kind = "submitted" => active < max_concurrent_jobs
                   /\ active >= max_concurrent_jobs
                        => resp = ServerBusy(active, max_concurrent_jobs)
       /\ Cardinality(ActiveJobs(jobs')) <= max_concurrent_jobs]_vars

\* C34, amended: a submit call is accepted only when fewer than
\* max_concurrent_jobs jobs are queued or running; when that many are, it
\* ends with RateLimitExceeded if the rate limiter rejects the client, and
\* with ServerBusy carrying both counts if not; and the number of queued or
\* running jobs never exceeds max_concurrent_jobs
C34_AtCapacityIsServerBusyOnceAdmittedByRate ==
    [][/\ \A ip \in Ips, body \in SubmitBodies :
            SubmitChat(ip, body) =>
                LET resp == TheValue(jm_last').resp
                    active == Cardinality(ActiveJobs(jobs))
                    retry_after == CheckLocked(buckets, limit, ip, now)[2]
                IN /\ resp.kind = "submitted" => active < max_concurrent_jobs
                   /\ active >= max_concurrent_jobs =>
                        resp = IF retry_after # None
                               THEN RateLimitExceeded(TheValue(retry_after))
                               ELSE ServerBusy(active, max_concurrent_jobs)
       /\ Cardinality(ActiveJobs(jobs')) <= max_concurrent_jobs]_vars

\* a submit ended with ServerBusy while a job was running and an earlier job
\* was done
C34_Witness ==
    /\ jm_last # None
    /\ LastJm.op = "submit"
    /\ LastJm.resp = ServerBusy(max_concurrent_jobs, max_concurrent_jobs)
    /\ \E j \in DOMAIN jobs : jobs[j].status = "running"
    /\ \E j \in DOMAIN jobs : jobs[j].status = "done"

\* C40: submit_chat checks the rate limit, then the capacity, then the
\* input, then creates the job: the first check that fails decides the
\* response; a call that ends with ServerBusy or InvalidInput has been
\* counted in the client's window and has created nothing, a call that ends
\* with RateLimitExceeded has changed neither the windows nor the jobs
C40_SubmitChecksInOrder ==
    [][\A ip \in Ips, body \in SubmitBodies :
          SubmitChat(ip, body) =>
              LET resp == TheValue(jm_last').resp
                  retry_after == CheckLocked(buckets, limit, ip, now)[2]
                  busy == Cardinality(ActiveJobs(jobs)) >= max_concurrent_jobs
                  counted == /\ ip \in DOMAIN buckets'
                             /\ buckets'[ip].count =
                                   IF OpensWindow(buckets, ip, now) THEN 1
                                   ELSE buckets[ip].count + 1
              IN /\ resp.kind = "RateLimitExceeded" <=> retry_after # None
                 /\ resp.kind = "ServerBusy" <=> (retry_after = None /\ busy)
                 /\ resp.kind = "InvalidInput"
                      <=> (retry_after = None /\ ~busy /\ ~TruthyStr(get_code(body)))
                 /\ resp.kind = "RateLimitExceeded"
                      => UNCHANGED <<buckets, jobs, nextJob, task>>
                 /\ resp.kind \in {"ServerBusy", "InvalidInput"}
                      => counted /\ UNCHANGED <<jobs, nextJob, task>>
                 /\ resp.kind = "submitted"
                      => counted /\ nextJob' = nextJob + 1 /\ resp.job_id \in DOMAIN jobs']_vars

\* a client is over its limit though no job was ever created: the calls
\* that used up its window all ended with InvalidInput
C40_Witness ==
    /\ jm_last # None
    /\ LastJm.op = "submit"
    /\ LastJm.resp.kind = "RateLimitExceeded"
    /\ nextJob = 0

====
